---------------------------- MODULE Spec2Model ----------------------------
(***************************************************************************)
(* A model of astroid's zipper (astroid/zipper.py), of the node model it   *)
(* walks (astroid/base.py, astroid/node_classes.py) and of the scope       *)
(* resolution built on it (astroid/scope.py).                              *)
(*                                                                         *)
(* Objects live in a heap: heap[i] is the object with identity i.  An      *)
(* object is a node of some class with its _astroid_fields values in       *)
(* declaration order, or a Python list with its elements.  The singleton   *)
(* Empty has the identity 0 and is not stored in the heap.                 *)
(*                                                                         *)
(* A cursor (Zipper) is [focus, path].  path is the chain _self_path,      *)
(* _self_path.parent_path, ... as a sequence of frames, innermost first;   *)
(* the empty sequence is the path None of a root cursor.  A frame is       *)
(* [left, right, pnode, changed]: left and right are the linked lists of   *)
(* siblings, nearest first; pnode is parent_nodes[0].  The rest of         *)
(* parent_nodes is not stored: down() is the only place that builds a      *)
(* Path, and it sets parent_nodes to (focus, parent_path.parent_nodes), so *)
(* parent_nodes is always the pnode of every frame of the chain in order.  *)
(***************************************************************************)
EXTENDS Integers, Sequences, FiniteSets, TLC

VARIABLES heap, cur, res, nedits, gen

vars == <<heap, cur, res, nedits, gen>>

\* ------------------------------------------------------------------ bounds

\* How many objects the operations may build on top of the initial heap.
MaxAlloc == 1

\* How many replace() and edit() calls a run makes.
MaxEdits == 1

\* ------------------------------------------------------------- node model

\* base.Empty, the singleton (astroid/base.py).
Empty == 0

Obj(cls, fields, name) == [cls |-> cls, fields |-> fields, name |-> name]

\* The objects the model starts from.  1..9 are the tree
\*   Module(body=[If(test=Name a, body=[Pass], orelse=[]), Pass,
\*                Raise(exc=Empty, cause=Empty, traceback=Empty)])
\* and 10..11 the separate tree Expr(value=Name b), which serves as a second
\* root and as the caller-supplied node of replace().
Heap0 ==
  << Obj("Module", <<2>>, "m"),
     Obj("list", <<3, 4, 5>>, ""),
     Obj("If", <<6, 7, 8>>, ""),
     Obj("Pass", <<>>, ""),
     Obj("Raise", <<Empty, Empty, Empty>>, ""),
     Obj("Name", <<>>, "a"),
     Obj("list", <<9>>, ""),
     Obj("list", <<>>, ""),
     Obj("Pass", <<>>, ""),
     Obj("Expr", <<11>>, ""),
     Obj("Name", <<>>, "b") >>

Roots == {1, 10}

ReplVals == {10, Empty}

\* isinstance(x, base.BaseNode): every node and Empty, not a list.
IsNode(h, x) == x = Empty \/ h[x].cls # "list"

IsList(h, x) == x # Empty /\ h[x].cls = "list"

\* BaseNode.__iter__ and list.__iter__: the values of the child fields in
\* declaration order, or the elements.
Children(h, x) == IF x = Empty THEN <<>> ELSE h[x].fields

\* bool(x): Empty.__bool__ is False, a list is true when it has elements,
\* every other node is true (BaseNode defines neither __bool__ nor __len__).
Truthy(h, x) ==
  IF x = Empty THEN FALSE
  ELSE IF h[x].cls = "list" THEN Len(h[x].fields) > 0
  ELSE TRUE

\* ------------------------------------------------------ linked-list helpers

RECURSIVE _reverse(_)
\* _reverse returns None for the empty list; every caller hands the result
\* to _concatenate, which treats None as the empty list.
_reverse(l) == IF l = <<>> THEN <<>> ELSE Append(_reverse(Tail(l)), Head(l))

_concatenate(l, r) ==
  IF l = <<>> THEN r
  ELSE IF r = <<>> THEN l
  ELSE l \o r

_last(l) == l[Len(l)]

_initial(l) == SubSeq(l, 1, Len(l) - 1)

\* ----------------------------------------------------------------- cursors

Frame(l, r, pnode, changed) ==
  [left |-> l, right |-> r, pnode |-> pnode, changed |-> changed]

Zipper(focus, path) == [focus |-> focus, path |-> path]

\* An operation's outcome: z is <<>> for None and <<cursor>> for a cursor,
\* h the heap after it, err whether it raised.
Outcome(z, h, err) == [z |-> z, h |-> h, err |-> err]

\* Path._replace on the innermost frame.
ReplaceTop(path, frame) == <<frame>> \o Tail(path)

left(z) ==
  IF z.path # <<>> /\ z.path[1].left # <<>>
  THEN LET p == z.path[1]
       IN <<Zipper(Head(p.left),
                   ReplaceTop(z.path,
                     Frame(Tail(p.left), <<z.focus>> \o p.right,
                           p.pnode, p.changed)))>>
  ELSE <<>>

\* The same with the focus left out of what is put to the right.
leftmostDroppingFocus(z) ==
  IF z.path # <<>> /\ z.path[1].left # <<>>
  THEN LET p == z.path[1]
           siblings == _initial(p.left)
           rgt == _concatenate(_reverse(siblings), p.right)
       IN <<Zipper(_last(p.left),
                   ReplaceTop(z.path, Frame(<<>>, rgt, p.pnode, p.changed)))>>
  ELSE <<>>

leftmost(z) ==
  IF z.path # <<>> /\ z.path[1].left # <<>>
  THEN LET p == z.path[1]
           siblings == _initial(p.left)
           rgt == _concatenate(_reverse(siblings), <<z.focus>> \o p.right)
       IN <<Zipper(_last(p.left),
                   ReplaceTop(z.path, Frame(<<>>, rgt, p.pnode, p.changed)))>>
  ELSE <<>>

right(z) ==
  IF z.path # <<>> /\ z.path[1].right # <<>>
  THEN LET p == z.path[1]
       IN <<Zipper(Head(p.right),
                   ReplaceTop(z.path,
                     Frame(<<z.focus>> \o p.left, Tail(p.right),
                           p.pnode, p.changed)))>>
  ELSE <<>>

rightmost(z) ==
  IF z.path # <<>> /\ z.path[1].right # <<>>
  THEN LET p == z.path[1]
           siblings == _initial(p.right)
           lft == _concatenate(_reverse(siblings), <<z.focus>> \o p.left)
       IN <<Zipper(_last(p.right),
                   ReplaceTop(z.path, Frame(lft, <<>>, p.pnode, p.changed)))>>
  ELSE <<>>

\* down() that hands out a cursor on Empty where there is no child.
downOrEmpty(h, z) ==
  LET children == Children(h, z.focus)
  IN IF children = <<>>
     THEN <<Zipper(Empty, <<Frame(<<>>, <<>>, z.focus, FALSE)>> \o z.path)>>
     ELSE <<Zipper(Head(children),
                   <<Frame(<<>>, Tail(children), z.focus, FALSE)>> \o z.path)>>

down(h, z) ==
  LET children == Children(h, z.focus)
  IN IF children = <<>> THEN <<>>
     ELSE <<Zipper(Head(children),
                   <<Frame(<<>>, Tail(children), z.focus, FALSE)>> \o z.path)>>

\* focus.make_node(children) in up().  For a node it builds a node of the
\* same class and non-child fields over the given children (the method's
\* body is not part of the sources at hand; this is the spec's "freshly
\* reconstructed ancestor node").  A child sequence is a plain Python list
\* (rebuilder.py builds every body with a list display), which has no
\* attribute make_node: the call raises AttributeError.
\* Returns [h, id, err].
make_node(h, x, children) ==
  IF IsList(h, x)
  THEN [h |-> h, id |-> x, err |-> TRUE]
  ELSE [h |-> Append(h, Obj(h[x].cls, children, h[x].name)),
        id |-> Len(h) + 1, err |-> FALSE]

\* up() that stores the siblings into the parent object itself.
upInPlace(h, z) ==
  IF z.path = <<>> THEN Outcome(<<>>, h, FALSE)
  ELSE LET p == z.path[1]
           focus_node == _concatenate(_reverse(p.left), <<z.focus>> \o p.right)
       IN IF p.changed
          THEN Outcome(<<Zipper(p.pnode, Tail(z.path))>>,
                       [h EXCEPT ![p.pnode].fields = focus_node], FALSE)
          ELSE Outcome(<<Zipper(p.pnode, Tail(z.path))>>, h, FALSE)

\* up() that rebuilds the parent whatever the dirty flag says.
upRebuild(h, z) ==
  IF z.path = <<>> THEN Outcome(<<>>, h, FALSE)
  ELSE LET p == z.path[1]
           focus_node == _concatenate(_reverse(p.left), <<z.focus>> \o p.right)
           made == make_node(h, p.pnode, focus_node)
       IN IF made.err THEN Outcome(<<>>, h, TRUE)
          ELSE Outcome(<<Zipper(made.id, Tail(z.path))>>, made.h, FALSE)

up(h, z) ==
  IF z.path = <<>> THEN Outcome(<<>>, h, FALSE)
  ELSE LET p == z.path[1]
           parent_path == Tail(z.path)
       IN IF p.changed
          THEN LET focus_node ==
                     _concatenate(_reverse(p.left), <<z.focus>> \o p.right)
                   made == make_node(h, p.pnode, focus_node)
                   path == IF parent_path = <<>> THEN <<>>
                           ELSE ReplaceTop(parent_path,
                                  [parent_path[1] EXCEPT !.changed = TRUE])
               IN IF made.err THEN Outcome(<<>>, h, TRUE)
                  ELSE Outcome(<<Zipper(made.id, path)>>, made.h, FALSE)
          ELSE Outcome(<<Zipper(p.pnode, parent_path)>>, h, FALSE)

RECURSIVE root(_, _)
root(h, z) ==
  IF z.path = <<>> THEN Outcome(<<z>>, h, FALSE)
  ELSE LET o == up(h, z)
       IN IF o.err THEN o ELSE root(o.h, o.z[1])

replace(z, new_focus) ==
  LET new_path == IF z.path # <<>>
                  THEN ReplaceTop(z.path, [z.path[1] EXCEPT !.changed = TRUE])
                  ELSE <<>>
  IN <<Zipper(new_focus, new_path)>>

\* The children edit() is called with: for a list, the constructor's
\* argument (no argument, or a one-element iterable); for a node, the
\* fields recreate() is given (the node's own, or its first one replaced).
EditArgs(h, x) ==
  IF IsList(h, x) THEN {<<>>, <<10>>}
  ELSE IF Children(h, x) = <<>> THEN {<<>>}
  ELSE {Children(h, x), <<Empty>> \o Tail(Children(h, x))}

\* recreate() is not part of the sources at hand either: per edit()'s
\* docstring it "creates a new node from the existing node", with the given
\* fields.  A list is rebuilt by its class's constructor.
edit(h, z, args) ==
  LET new_path == IF z.path # <<>>
                  THEN ReplaceTop(z.path, [z.path[1] EXCEPT !.changed = TRUE])
                  ELSE <<>>
      new_focus == Obj(h[z.focus].cls, args, h[z.focus].name)
  IN Outcome(<<Zipper(Len(h) + 1, new_path)>>, Append(h, new_focus), FALSE)

\* parent_nodes of a path, nearest first.
ParentNodes(path) == [k \in 1..Len(path) |-> path[k].pnode]

\* The loop over zip(_iterate(self_ancestors), _iterate(other_ancestors)):
\* the last i with a[j] is b[j] and a[j] is not Empty for every j <= i
\* (0 when ancestor stays None).
\* The loop without its test for Empty.
CommonPrefixIdentityOnly(a, b) ==
  LET n == IF Len(a) < Len(b) THEN Len(a) ELSE Len(b)
      ok(i) == \A j \in 1..i : a[j] = b[j]
      S == {i \in 0..n : ok(i)}
  IN CHOOSE i \in S : \A k \in S : k <= i

CommonPrefix(a, b) ==
  LET n == IF Len(a) < Len(b) THEN Len(a) ELSE Len(b)
      ok(i) == \A j \in 1..i : a[j] = b[j] /\ a[j] # Empty
      S == {i \in 0..n : ok(i)}
  IN CHOOSE i \in S : \A k \in S : k <= i

RECURSIVE UpUntil(_, _, _)
\* while location.__wrapped__ is not ancestor: location = location.up()
\* Reading __wrapped__ of None raises AttributeError.
UpUntil(h, location, ancestor) ==
  IF location.focus = ancestor THEN Outcome(<<location>>, h, FALSE)
  ELSE LET o == up(h, location)
       IN IF o.err THEN o
          ELSE IF o.z = <<>> THEN Outcome(<<>>, o.h, TRUE)
          ELSE UpUntil(o.h, o.z[1], ancestor)

common_ancestor(h, self, other) ==
  LET self_ancestors == _reverse(<<self.focus>> \o ParentNodes(self.path))
      other_ancestors == _reverse(<<other.focus>> \o ParentNodes(other.path))
      i == CommonPrefix(self_ancestors, other_ancestors)
  IN IF i = 0 THEN Outcome(<<>>, h, FALSE)
     ELSE UpUntil(h, self, self_ancestors[i])

\* ------------------------------------------------------- the zipper's user

RECURSIVE Below(_, _, _)
\* Every cursor reached from z by down() and right() alone, to depth d.
Below(h, z, d) ==
  {z} \cup (IF right(z) = <<>> THEN {} ELSE Below(h, right(z)[1], d))
      \cup (IF d = 0 \/ down(h, z) = <<>> THEN {}
            ELSE Below(h, down(h, z)[1], d - 1))

\* The cursors a caller holds besides the one it works with: every cursor
\* moved to from a fresh root cursor, and each of them with its focus
\* replaced.
Others(h) ==
  LET plain == UNION {Below(h, Zipper(t, <<>>), Len(h)) : t \in Roots}
  IN plain \cup {replace(z, x)[1] : z \in plain, x \in ReplVals}

\* What the last call was: the method, the cursor it was called on, its
\* argument (replace's new focus), the other cursor of common_ancestor
\* (<<>> when there is none), what it returned (<<>> for None), whether it
\* raised, and how many objects it built.
Result(op, recv, arg, other, o, h) ==
  [op |-> op, recv |-> recv, arg |-> arg, other |-> other, out |-> o.z,
   err |-> o.err, built |-> Len(o.h) - Len(h)]

NoGen == [kind |-> "none"]

\* Zipper(node): a root cursor over one of the trees.
InitZipper ==
  /\ heap = Heap0
  /\ \E t \in Roots :
       /\ cur = Zipper(t, <<>>)
       /\ res = Result("Zipper", Zipper(t, <<>>), t, <<>>,
                       Outcome(<<Zipper(t, <<>>)>>, Heap0, FALSE), Heap0)
  /\ nedits = 0
  /\ gen = NoGen

\* A call on cur: the caller goes on with the cursor it got back, and stays
\* on cur when the call returned None or raised.
Call(op, arg, other, o) ==
  /\ Len(o.h) <= Len(Heap0) + MaxAlloc
  /\ heap' = o.h
  /\ cur' = IF o.z = <<>> THEN cur ELSE o.z[1]
  /\ res' = Result(op, cur, arg, other, o, heap)
  /\ UNCHANGED gen

Move(op, o) == Call(op, Empty, <<>>, o) /\ UNCHANGED nedits

Left == Move("left", Outcome(left(cur), heap, FALSE))

Leftmost == Move("leftmost", Outcome(leftmost(cur), heap, FALSE))

Right == Move("right", Outcome(right(cur), heap, FALSE))

Rightmost == Move("rightmost", Outcome(rightmost(cur), heap, FALSE))

Down == Move("down", Outcome(down(heap, cur), heap, FALSE))

Up == Move("up", up(heap, cur))

Root == Move("root", root(heap, cur))

Replace ==
  /\ nedits < MaxEdits
  /\ nedits' = nedits + 1
  /\ \E x \in ReplVals :
       Call("replace", x, <<>>, Outcome(replace(cur, x), heap, FALSE))

Edit ==
  /\ nedits < MaxEdits
  /\ nedits' = nedits + 1
  /\ cur.focus # Empty
  /\ \E args \in EditArgs(heap, cur.focus) :
       Call("edit", Empty, <<>>, edit(heap, cur, args))

CommonAncestor ==
  /\ \E other \in Others(Heap0) :
       Call("common_ancestor", Empty, <<other>>,
            common_ancestor(heap, cur, other))
  /\ UNCHANGED nedits

Next ==
  \/ Left
  \/ Leftmost
  \/ Right
  \/ Rightmost
  \/ Down
  \/ Up
  \/ Root
  \/ Replace
  \/ Edit
  \/ CommonAncestor

Spec == InitZipper /\ [][Next]_vars

\* -------------------------------------------------------------- traversals

\* How many times the consumer of a traversal calls send() with a cursor.
MaxSends == 1

\* dont_recurse_on, as find_descendants_of_type builds it:
\* lambda n: isinstance(n, classes).  The empty set never skips, as does a
\* dont_recurse_on that is not callable.
SkipSets == {{}, {"If"}, {"list"}, {"Name", "Empty"}}

ClassOf(h, x) == IF x = Empty THEN "Empty" ELSE h[x].cls

Skips(skip, h, z) == ClassOf(h, z.focus) \in skip

\* A generator's state after a resumption: st is "yielded" (it is suspended
\* at a yield, loc holding the cursor yielded), "done" (it returned) or
\* "raised"; h is the heap then.
Suspended(st, loc, h) == [st |-> st, loc |-> loc, h |-> h]

\* A loop top that yields without asking dont_recurse_on.
PreLoopYieldAll(h, location, skip) == Suspended("yielded", <<location>>, h)

RECURSIVE PreLoop(_, _, _), PreAdvance(_, _, _), PreClimb(_, _, _)

\* preorder_descendants from the top of its while loop.
PreLoop(h, location, skip) ==
  IF ~Skips(skip, h, location)
  THEN Suspended("yielded", <<location>>, h)
  ELSE PreAdvance(h, location, skip)

\* "Move right if possible", else go up.
PreAdvance(h, location, skip) ==
  IF location.path # <<>> /\ location.path[1].right # <<>>
  THEN PreLoop(h, right(location)[1], skip)
  ELSE PreClimb(h, location, skip)

\* "Go up until it's possible to move right again".
PreClimb(h, location, skip) ==
  LET o == up(h, location)
  IN IF o.err THEN Suspended("raised", <<>>, o.h)
     ELSE IF o.z = <<>> THEN Suspended("done", <<>>, o.h)
     ELSE IF o.z[1].path # <<>> /\ o.z[1].path[1].right # <<>>
          THEN PreLoop(o.h, right(o.z[1])[1], skip)
          ELSE PreClimb(o.h, o.z[1], skip)

\* preorder_descendants from its yield: new_location is what send() passed
\* (<<>> for None).
PreResume(h, loc, new_location, skip) ==
  LET location == IF new_location # <<>> THEN new_location[1] ELSE loc
  IN IF down(h, location) # <<>>
     THEN PreLoop(h, down(h, location)[1], skip)
     ELSE PreAdvance(h, location, skip)

\* (isinstance(location, base.BaseNode) and location._astroid_fields)
\*  or location
HasFieldsOrTrue(h, location) ==
  location # <<>> /\
    ((IsNode(h, location[1].focus) /\ Children(h, location[1].focus) # <<>>)
       \/ Truthy(h, location[1].focus))

RECURSIVE PostDescend(_, _, _)
\* The loop "while (...): location = location.down()"; location is <<>>
\* once down() has returned None.
PostDescend(h, location, skip) ==
  IF HasFieldsOrTrue(h, location) /\ ~Skips(skip, h, location[1])
  THEN PostDescend(h, down(h, location[1]), skip)
  ELSE location

RECURSIVE PostLoop(_, _, _), PostAdvance(_, _, _)

\* postorder_descendants from the top of "while location is not None".
PostLoop(h, location, skip) ==
  IF location = <<>> THEN Suspended("done", <<>>, h)
  ELSE IF ~Skips(skip, h, location[1])
       THEN Suspended("yielded", location, h)
       ELSE PostAdvance(h, location[1], skip)

\* Move right and down to the leftmost descendant, else up.
PostAdvance(h, location, skip) ==
  IF location.path # <<>> /\ location.path[1].right # <<>>
  THEN PostLoop(h, PostDescend(h, right(location), skip), skip)
  ELSE LET o == up(h, location)
       IN IF o.err THEN Suspended("raised", <<>>, o.h)
          ELSE PostLoop(o.h, o.z, skip)

PostResume(h, loc, new_location, skip) ==
  PostAdvance(h, IF new_location # <<>> THEN new_location[1] ELSE loc, skip)

\* The generator starts at Zipper(self.__wrapped__), a fresh root cursor.
Start(h, kind, start, skip) ==
  IF kind = "pre"
  THEN PreLoop(h, Zipper(start, <<>>), skip)
  ELSE PostLoop(h, PostDescend(h, <<Zipper(start, <<>>)>>, skip), skip)

Resume(h, kind, loc, new_location, skip) ==
  IF kind = "pre"
  THEN PreResume(h, loc, new_location, skip)
  ELSE PostResume(h, loc, new_location, skip)

\* A call of preorder_descendants or postorder_descendants on a cursor on
\* any object: the generator object, not yet started.
InitTraversal ==
  /\ heap = Heap0
  /\ cur = Zipper(1, <<>>)
  /\ res = Result("Zipper", Zipper(1, <<>>), 1, <<>>,
                  Outcome(<<Zipper(1, <<>>)>>, Heap0, FALSE), Heap0)
  /\ nedits = 0
  /\ \E kind \in {"pre", "post"}, start \in 0..Len(Heap0), skip \in SkipSets :
       gen = [kind |-> kind, start |-> start, skip |-> skip, st |-> "new",
              loc |-> <<>>, yielded |-> <<>>, sends |-> <<>>]

Step(s, new_location) ==
  /\ Len(s.h) <= Len(Heap0) + MaxAlloc
  /\ heap' = s.h
  /\ gen' = [gen EXCEPT
               !.st = s.st,
               !.loc = s.loc,
               !.yielded = IF s.st = "yielded" THEN Append(@, s.loc[1]) ELSE @,
               !.sends = IF new_location = <<>> THEN @
                         ELSE Append(@, [at |-> Len(gen.yielded),
                                         r |-> new_location[1]])]
  /\ UNCHANGED <<cur, res, nedits>>

\* next(iterator)
GenNext ==
  \/ /\ gen.st = "new"
     /\ Step(Start(heap, gen.kind, gen.start, gen.skip), <<>>)
  \/ /\ gen.st = "yielded"
     /\ Step(Resume(heap, gen.kind, gen.loc[1], <<>>, gen.skip), <<>>)

\* iterator.send(c.replace(x)), c being the cursor just yielded
GenSend ==
  /\ gen.st = "yielded"
  /\ Len(gen.sends) < MaxSends
  /\ \E x \in ReplVals :
       LET r == replace(gen.loc[1], x)
       IN Step(Resume(heap, gen.kind, gen.loc[1], r, gen.skip), r)

NextTraversal ==
  \/ GenNext
  \/ GenSend

SpecTraversal == InitTraversal /\ [][NextTraversal]_vars

\* ------------------------------------------------------------------- scope

\* A declared child field the constructor does not set: Comprehension's
\* __init__ assigns target and iter and never ifs, so the object has no
\* such attribute.
Missing == -1

RECURSIVE TreeOf(_, _)
\* The value BaseNode.__eq__ and list.__eq__ compare: class, non-child
\* fields and children, recursively.
TreeOf(h, x) ==
  IF x = Empty THEN [cls |-> "Empty", name |-> "", kids |-> <<>>]
  ELSE IF x = Missing THEN [cls |-> "Missing", name |-> "", kids |-> <<>>]
  ELSE [cls |-> h[x].cls, name |-> h[x].name,
        kids |-> [k \in 1..Len(h[x].fields) |-> TreeOf(h, h[x].fields[k])]]

\* six.PY3: the interpreter the annotations of the trees below need.
PY3 == TRUE

\* The tree of
\*   @cd
\*   class C:
\*       @mod.dec
\*       def k(): pass
\*       def f(a: t = v, *va: u, k=w, **kw: y) -> r: pass
\*   [i for a in D for b in D]
\*   g = lambda x=z: x
\*   def h(p=lambda q=d: q, o: s = lambda n=e: n): pass
\* Child fields in the order of _astroid_fields: ClassDef (decorators,
\* bases, body, keywords), FunctionDef (decorators, args, body, returns),
\* Arguments (args, vararg, kwarg, keyword_only, positional_only), Parameter
\* (default, annotation), Lambda (args, body), Assign (targets, value),
\* Decorators (nodes), Attribute (expr), ListComp (generators, elt),
\* Comprehension (target, iter, ifs), Expr (value).
HeapS ==
  <<
     Obj("Module", <<2>>, "m"),  \* 1
     Obj("list", <<3, 38, 48, 59>>, ""),  \* 2
     Obj("ClassDef", <<4, 7, 8, 37>>, "C"),  \* 3
     Obj("Decorators", <<5>>, ""),  \* 4
     Obj("list", <<6>>, ""),  \* 5
     Obj("Name", <<>>, "cd"),  \* 6
     Obj("list", <<>>, ""),  \* 7
     Obj("list", <<9, 20>>, ""),  \* 8
     Obj("FunctionDef", <<10, 14, 18, Empty>>, "k"),  \* 9
     Obj("Decorators", <<11>>, ""),  \* 10
     Obj("list", <<12>>, ""),  \* 11
     Obj("Attribute", <<13>>, "dec"),  \* 12
     Obj("Name", <<>>, "mod"),  \* 13
     Obj("Arguments", <<15, Empty, Empty, 16, 17>>, ""),  \* 14
     Obj("list", <<>>, ""),  \* 15
     Obj("list", <<>>, ""),  \* 16
     Obj("list", <<>>, ""),  \* 17
     Obj("list", <<19>>, ""),  \* 18
     Obj("Pass", <<>>, ""),  \* 19
     Obj("FunctionDef", <<Empty, 21, 34, 36>>, "f"),  \* 20
     Obj("Arguments", <<22, 26, 28, 30, 33>>, ""),  \* 21
     Obj("list", <<23>>, ""),  \* 22
     Obj("Parameter", <<24, 25>>, "a"),  \* 23
     Obj("Name", <<>>, "v"),  \* 24
     Obj("Name", <<>>, "t"),  \* 25
     Obj("Parameter", <<Empty, 27>>, "va"),  \* 26
     Obj("Name", <<>>, "u"),  \* 27
     Obj("Parameter", <<Empty, 29>>, "kw"),  \* 28
     Obj("Name", <<>>, "y"),  \* 29
     Obj("list", <<31>>, ""),  \* 30
     Obj("Parameter", <<32, Empty>>, "k"),  \* 31
     Obj("Name", <<>>, "w"),  \* 32
     Obj("list", <<>>, ""),  \* 33
     Obj("list", <<35>>, ""),  \* 34
     Obj("Pass", <<>>, ""),  \* 35
     Obj("Name", <<>>, "r"),  \* 36
     Obj("list", <<>>, ""),  \* 37
     Obj("Expr", <<39>>, ""),  \* 38
     Obj("ListComp", <<40, 47>>, ""),  \* 39
     Obj("list", <<41, 44>>, ""),  \* 40
     Obj("Comprehension", <<42, 43, Missing>>, ""),  \* 41
     Obj("AssignName", <<>>, "a"),  \* 42
     Obj("Name", <<>>, "D"),  \* 43
     Obj("Comprehension", <<45, 46, Missing>>, ""),  \* 44
     Obj("AssignName", <<>>, "b"),  \* 45
     Obj("Name", <<>>, "D"),  \* 46
     Obj("Name", <<>>, "i"),  \* 47
     Obj("Assign", <<49, 51>>, ""),  \* 48
     Obj("list", <<50>>, ""),  \* 49
     Obj("AssignName", <<>>, "g"),  \* 50
     Obj("Lambda", <<52, 58>>, "<lambda>"),  \* 51
     Obj("Arguments", <<53, Empty, Empty, 56, 57>>, ""),  \* 52
     Obj("list", <<54>>, ""),  \* 53
     Obj("Parameter", <<55, Empty>>, "x"),  \* 54
     Obj("Name", <<>>, "z"),  \* 55
     Obj("list", <<>>, ""),  \* 56
     Obj("list", <<>>, ""),  \* 57
     Obj("Name", <<>>, "x"),  \* 58
     Obj("FunctionDef", <<Empty, 60, 83, Empty>>, "h"),  \* 59
     Obj("Arguments", <<61, Empty, Empty, 81, 82>>, ""),  \* 60
     Obj("list", <<62, 71>>, ""),  \* 61
     Obj("Parameter", <<63, Empty>>, "p"),  \* 62
     Obj("Lambda", <<64, 70>>, "<lambda>"),  \* 63
     Obj("Arguments", <<65, Empty, Empty, 68, 69>>, ""),  \* 64
     Obj("list", <<66>>, ""),  \* 65
     Obj("Parameter", <<67, Empty>>, "q"),  \* 66
     Obj("Name", <<>>, "d"),  \* 67
     Obj("list", <<>>, ""),  \* 68
     Obj("list", <<>>, ""),  \* 69
     Obj("Name", <<>>, "q"),  \* 70
     Obj("Parameter", <<72, 80>>, "o"),  \* 71
     Obj("Lambda", <<73, 79>>, "<lambda>"),  \* 72
     Obj("Arguments", <<74, Empty, Empty, 77, 78>>, ""),  \* 73
     Obj("list", <<75>>, ""),  \* 74
     Obj("Parameter", <<76, Empty>>, "n"),  \* 75
     Obj("Name", <<>>, "e"),  \* 76
     Obj("list", <<>>, ""),  \* 77
     Obj("list", <<>>, ""),  \* 78
     Obj("Name", <<>>, "n"),  \* 79
     Obj("Name", <<>>, "s"),  \* 80
     Obj("list", <<>>, ""),  \* 81
     Obj("list", <<>>, ""),  \* 82
     Obj("list", <<84>>, ""),  \* 83
     Obj("Pass", <<>>, "")  \* 84
  >>

\* iter(node) yields getattr(node, field) for every declared child field,
\* and raises AttributeError at one the object does not have.
IterationRaises(h, x) ==
  x # Empty /\ \E k \in 1..Len(h[x].fields) : h[x].fields[k] = Missing

\* down() on any object: _linked_list(*children) runs the iteration to its
\* end, so an attribute that is not there makes down() raise.
DownOutcome(h, z) ==
  IF IterationRaises(h, z.focus) THEN Outcome(<<>>, h, TRUE)
  ELSE Outcome(down(h, z), h, FALSE)

\* o.down() and o.right(), o being what an attribute chain gave
DownOf(o) ==
  IF o.err THEN o
  ELSE IF o.z = <<>> THEN Outcome(<<>>, o.h, TRUE)
  ELSE DownOutcome(o.h, o.z[1])

RightOf(o) ==
  IF o.err THEN o
  ELSE IF o.z = <<>> THEN Outcome(<<>>, o.h, TRUE)
  ELSE Outcome(right(o.z[1]), o.h, FALSE)

\* What Zipper.parent makes of what up() returned: up() once more from a
\* sequence.
ParentFrom(location) ==
  IF location.err \/ location.z = <<>> THEN location
  ELSE IF IsList(location.h, location.z[1].focus)
       THEN up(location.h, location.z[1])
       ELSE location

\* Zipper.parent
parent(h, z) == ParentFrom(up(h, z))

RECURSIVE Parents(_, _, _)

ParentsAfter(o, n) == IF o.err THEN o ELSE Parents(o.h, o.z, n)

\* location.parent.parent..., n times; location is <<>> for None, whose
\* attributes raise AttributeError.
Parents(h, location, n) ==
  IF n = 0 THEN Outcome(location, h, FALSE)
  ELSE IF location = <<>> THEN Outcome(<<>>, h, TRUE)
  ELSE ParentsAfter(parent(h, location[1]), n - 1)

\* a == b on nodes and lists
StructEq(h, a, b) == TreeOf(h, a) = TreeOf(h, b)

ScopedClasses ==
  {"Module", "GeneratorExp", "DictComp", "SetComp", "Lambda", "FunctionDef",
   "ClassDef"} \cup (IF PY3 THEN {"ListComp"} ELSE {})

RECURSIVE node_scope(_, _)

\* o.scope(), o being what an attribute chain gave
ScopeOfOutcome(o) ==
  IF o.err THEN o
  ELSE IF o.z = <<>> THEN Outcome(<<>>, o.h, TRUE)
  ELSE node_scope(o.h, o.z[1])

\* z.parent ... .parent.scope(), with n parents
ScopeOfParents(h, z, n) == ScopeOfOutcome(Parents(h, <<z>>, n))

_scope_by_argument_parent(h, args, node) ==
  LET kids == Children(h, args.focus)
      positional_and_keyword == Children(h, kids[1]) \o Children(h, kids[5])
      keyword_only == Children(h, kids[4])
      params == positional_and_keyword \o keyword_only
      _node_arguments ==
        SelectSeq(params \o <<kids[2], kids[3]>>,
                  LAMBDA arg : Truthy(h, arg) /\ Truthy(h, Children(h, arg)[2]))
  IN IF \E i \in 1..Len(params) :
          StructEq(h, Children(h, params[i])[1], node.focus)
     THEN ScopeOfParents(h, args, 2)
     ELSE IF PY3 /\ \E i \in 1..Len(_node_arguments) :
                      StructEq(h, _node_arguments[i], node.focus)
          THEN ScopeOfParents(h, args, 2)
          ELSE Outcome(<<>>, h, FALSE)

_scope_by_function_parent(h, par, node) ==
  IF PY3 /\ StructEq(h, node.focus, Children(h, par.focus)[4])
  THEN ScopeOfParents(h, par, 1)
  ELSE Outcome(<<>>, h, FALSE)

_scope_by_parameter_parent(h, par, node) ==
  IF StructEq(h, node.focus, Children(h, par.focus)[1])
  THEN ScopeOfParents(h, par, 3)
  ELSE IF StructEq(h, node.focus, Children(h, par.focus)[2])
       THEN ScopeOfParents(h, par, 3)
       ELSE Outcome(<<>>, h, FALSE)

\* first_iter = comprehension.down().down().down().right()
FirstIter(comprehension) == RightOf(DownOf(DownOf(DownOf(comprehension))))

\* _scope_by_comprehension_parent once comprehension = parent.parent and
\* first_iter are known.
ComprehensionRule(comprehension, first_iter, par, node) ==
  IF comprehension.err THEN comprehension
  ELSE IF first_iter.err THEN first_iter
  ELSE IF first_iter.z # <<>>
            /\ StructEq(first_iter.h, node.focus, first_iter.z[1].focus)
       THEN ScopeOfOutcome(ParentsAfter(comprehension, 1))
  ELSE IF ~PY3 /\ comprehension.z # <<>>
            /\ ClassOf(comprehension.h, comprehension.z[1].focus) = "ListComp"
       THEN ScopeOfOutcome(ParentsAfter(comprehension, 1))
  ELSE node_scope(first_iter.h, par)

_scope_by_comprehension_parent(h, par, node) ==
  ComprehensionRule(parent(h, par), FirstIter(parent(h, par)), par, node)

\* util.singledispatch around _scope_by_parent: an AttributeError out of
\* the function dispatched to makes it call the function registered for
\* the cursor's own type, the undecorated one, which returns None.
NoneOnError(r) == IF r.err THEN Outcome(<<>>, r.h, FALSE) ELSE r

\* The dispatch on the parent's class; par is <<>> for None.
_scope_by_parent(h, par, node) ==
  IF par = <<>> THEN Outcome(<<>>, h, FALSE)
  ELSE IF ClassOf(h, par[1].focus) = "Arguments"
       THEN NoneOnError(_scope_by_argument_parent(h, par[1], node))
  ELSE IF ClassOf(h, par[1].focus) = "FunctionDef"
       THEN NoneOnError(_scope_by_function_parent(h, par[1], node))
  ELSE IF ClassOf(h, par[1].focus) = "Parameter"
       THEN NoneOnError(_scope_by_parameter_parent(h, par[1], node))
  ELSE IF ClassOf(h, par[1].focus) = "Comprehension"
       THEN NoneOnError(_scope_by_comprehension_parent(h, par[1], node))
  ELSE Outcome(<<>>, h, FALSE)

\* return scope or node.parent.scope()
ScopeOrParentScope(scope, node) ==
  IF scope.z # <<>> /\ Truthy(scope.h, scope.z[1].focus) THEN scope
  ELSE ScopeOfParents(scope.h, node, 1)

\* scope = _scope_by_parent(node.parent, node), p being node.parent
ScopeByParent(p, node) ==
  IF p.err THEN p
  ELSE ScopeOrParentScope(_scope_by_parent(p.h, p.z, node), node)

\* The undecorated node_scope.
node_scope_default(h, node) == ScopeByParent(parent(h, node), node)

\* util.singledispatch around node_scope: on an AttributeError the
\* undecorated function is called.
DefaultOnError(r, node) ==
  IF r.err THEN node_scope_default(r.h, node) ELSE r

\* A node_scope whose Decorators case stops at the decorated definition.
node_scopeOneParent(h, node) ==
  IF ClassOf(h, node.focus) \in ScopedClasses THEN Outcome(<<node>>, h, FALSE)
  ELSE IF ClassOf(h, node.focus) = "Decorators"
       THEN ScopeOfParents(h, node, 1)
  ELSE node_scope_default(h, node)

\* node_scope, dispatched on the class of the node under the cursor.  (For
\* a class nothing is registered for, the function called on an
\* AttributeError is the one that has just raised it.)
node_scope(h, node) ==
  IF ClassOf(h, node.focus) \in ScopedClasses THEN Outcome(<<node>>, h, FALSE)
  ELSE IF ClassOf(h, node.focus) = "Decorators"
       THEN DefaultOnError(ScopeOfParents(h, node, 2), node)
  ELSE node_scope_default(h, node)

\* Zipper.scope
scope(h, z) == node_scope(h, z)

\* Zipper(module): a root cursor over the tree.
InitScope ==
  /\ heap = HeapS
  /\ cur = Zipper(1, <<>>)
  /\ res = Result("Zipper", Zipper(1, <<>>), 1, <<>>,
                  Outcome(<<Zipper(1, <<>>)>>, HeapS, FALSE), HeapS)
  /\ nedits = 0
  /\ gen = NoGen

\* A move over the tree that found a destination, or raised.
Walk(op, o) ==
  /\ o.z # <<>> \/ o.err
  /\ cur' = IF o.z = <<>> THEN cur ELSE o.z[1]
  /\ res' = Result(op, cur, Empty, <<>>, o, heap)
  /\ UNCHANGED <<heap, nedits, gen>>

WalkDown == Walk("down", DownOutcome(heap, cur))

WalkRight == Walk("right", Outcome(right(cur), heap, FALSE))

WalkUp == Walk("up", up(heap, cur))

\* The call returned (or raised) o.
ScopeReturned(o) ==
  /\ heap' = o.h
  /\ res' = Result("scope", cur, Empty, <<>>, o, heap)
  /\ UNCHANGED <<cur, nedits, gen>>

\* cursor.scope()
ScopeOf == ScopeReturned(scope(heap, cur))

NextScope ==
  \/ WalkDown
  \/ WalkRight
  \/ WalkUp
  \/ ScopeOf

SpecScope == InitScope /\ [][NextScope]_vars

\* -------------------------------------------------------------- line ranges

\* A node with the line the rebuilder copied from the parser's node (lineno).
\* A list has no such attribute.
ObjAt(cls, fields, name, lineno) ==
  [cls |-> cls, fields |-> fields, name |-> name, lineno |-> lineno]

\* The trees the builder returns for two modules.  1..29 is
\*    1 try:
\*    2   print('a')
\*    3 except IOError:
\*    4   pass
\*    5 except UnicodeError:
\*    6   print()
\*    7 else:
\*    8   print()
\* and 30..127 is
\*    1 if a:               12 while a:           24 try:
\*    2   b                 13   f(b,             25   try:
\*    3   c                 14     c)             26     b
\*    4 elif d:             15 for x in y:        27   except:
\*    5   e                 16   b                28     c
\*    6 else:               17 else:              29     d
\*    7   f                 18   c                30   except E:
\*    8 while a:            19 try:               31     e
\*    9   b                 20   b                32   f
\*   10 else:               21 except E: pass     33 finally:
\*   11   c                 22 finally:           34   g
\*                          23   c                35 for x in y:
\*                                                36   b
\*                                                37 if a:
\*                                                38   b
\* A Call without keywords holds an empty tuple as keywords, which iterates
\* and tests like the empty list it is written as here.  visit_try wraps the
\* try/except/finally of line 19 into a TryFinally over one TryExcept of the
\* same line.
HeapL ==
  <<
     ObjAt("Module", <<2>>, "example", 0),  \* 1
     ObjAt("list", <<3>>, "", Missing),  \* 2
     ObjAt("TryExcept", <<4, 11, 24>>, "", 1),  \* 3
     ObjAt("list", <<5>>, "", Missing),  \* 4
     ObjAt("Expr", <<6>>, "", 2),  \* 5
     ObjAt("Call", <<7, 8, 10>>, "", 2),  \* 6
     ObjAt("Name", <<>>, "print", 2),  \* 7
     ObjAt("list", <<9>>, "", Missing),  \* 8
     ObjAt("Const", <<>>, "a", 2),  \* 9
     ObjAt("list", <<>>, "", Missing),  \* 10
     ObjAt("list", <<12, 16>>, "", Missing),  \* 11
     ObjAt("ExceptHandler", <<13, Empty, 14>>, "", 3),  \* 12
     ObjAt("Name", <<>>, "IOError", 3),  \* 13
     ObjAt("list", <<15>>, "", Missing),  \* 14
     ObjAt("Pass", <<>>, "", 4),  \* 15
     ObjAt("ExceptHandler", <<17, Empty, 18>>, "", 5),  \* 16
     ObjAt("Name", <<>>, "UnicodeError", 5),  \* 17
     ObjAt("list", <<19>>, "", Missing),  \* 18
     ObjAt("Expr", <<20>>, "", 6),  \* 19
     ObjAt("Call", <<21, 22, 23>>, "", 6),  \* 20
     ObjAt("Name", <<>>, "print", 6),  \* 21
     ObjAt("list", <<>>, "", Missing),  \* 22
     ObjAt("list", <<>>, "", Missing),  \* 23
     ObjAt("list", <<25>>, "", Missing),  \* 24
     ObjAt("Expr", <<26>>, "", 8),  \* 25
     ObjAt("Call", <<27, 28, 29>>, "", 8),  \* 26
     ObjAt("Name", <<>>, "print", 8),  \* 27
     ObjAt("list", <<>>, "", Missing),  \* 28
     ObjAt("list", <<>>, "", Missing),  \* 29
     ObjAt("Module", <<31>>, "m", 0),  \* 30
     ObjAt("list", <<32, 48, 56, 67, 76, 91, 115, 122>>, "", Missing),  \* 31
     ObjAt("If", <<33, 34, 39>>, "", 1),  \* 32
     ObjAt("Name", <<>>, "a", 1),  \* 33
     ObjAt("list", <<35, 37>>, "", Missing),  \* 34
     ObjAt("Expr", <<36>>, "", 2),  \* 35
     ObjAt("Name", <<>>, "b", 2),  \* 36
     ObjAt("Expr", <<38>>, "", 3),  \* 37
     ObjAt("Name", <<>>, "c", 3),  \* 38
     ObjAt("list", <<40>>, "", Missing),  \* 39
     ObjAt("If", <<41, 42, 45>>, "", 4),  \* 40
     ObjAt("Name", <<>>, "d", 4),  \* 41
     ObjAt("list", <<43>>, "", Missing),  \* 42
     ObjAt("Expr", <<44>>, "", 5),  \* 43
     ObjAt("Name", <<>>, "e", 5),  \* 44
     ObjAt("list", <<46>>, "", Missing),  \* 45
     ObjAt("Expr", <<47>>, "", 7),  \* 46
     ObjAt("Name", <<>>, "f", 7),  \* 47
     ObjAt("While", <<49, 50, 53>>, "", 8),  \* 48
     ObjAt("Name", <<>>, "a", 8),  \* 49
     ObjAt("list", <<51>>, "", Missing),  \* 50
     ObjAt("Expr", <<52>>, "", 9),  \* 51
     ObjAt("Name", <<>>, "b", 9),  \* 52
     ObjAt("list", <<54>>, "", Missing),  \* 53
     ObjAt("Expr", <<55>>, "", 11),  \* 54
     ObjAt("Name", <<>>, "c", 11),  \* 55
     ObjAt("While", <<57, 58, 66>>, "", 12),  \* 56
     ObjAt("Name", <<>>, "a", 12),  \* 57
     ObjAt("list", <<59>>, "", Missing),  \* 58
     ObjAt("Expr", <<60>>, "", 13),  \* 59
     ObjAt("Call", <<61, 62, 65>>, "", 13),  \* 60
     ObjAt("Name", <<>>, "f", 13),  \* 61
     ObjAt("list", <<63, 64>>, "", Missing),  \* 62
     ObjAt("Name", <<>>, "b", 13),  \* 63
     ObjAt("Name", <<>>, "c", 14),  \* 64
     ObjAt("list", <<>>, "", Missing),  \* 65
     ObjAt("list", <<>>, "", Missing),  \* 66
     ObjAt("For", <<68, 69, 70, 73>>, "", 15),  \* 67
     ObjAt("AssignName", <<>>, "x", 15),  \* 68
     ObjAt("Name", <<>>, "y", 15),  \* 69
     ObjAt("list", <<71>>, "", Missing),  \* 70
     ObjAt("Expr", <<72>>, "", 16),  \* 71
     ObjAt("Name", <<>>, "b", 16),  \* 72
     ObjAt("list", <<74>>, "", Missing),  \* 73
     ObjAt("Expr", <<75>>, "", 18),  \* 74
     ObjAt("Name", <<>>, "c", 18),  \* 75
     ObjAt("TryFinally", <<77, 88>>, "", 19),  \* 76
     ObjAt("list", <<78>>, "", Missing),  \* 77
     ObjAt("TryExcept", <<79, 82, 87>>, "", 19),  \* 78
     ObjAt("list", <<80>>, "", Missing),  \* 79
     ObjAt("Expr", <<81>>, "", 20),  \* 80
     ObjAt("Name", <<>>, "b", 20),  \* 81
     ObjAt("list", <<83>>, "", Missing),  \* 82
     ObjAt("ExceptHandler", <<84, Empty, 85>>, "", 21),  \* 83
     ObjAt("Name", <<>>, "E", 21),  \* 84
     ObjAt("list", <<86>>, "", Missing),  \* 85
     ObjAt("Pass", <<>>, "", 21),  \* 86
     ObjAt("list", <<>>, "", Missing),  \* 87
     ObjAt("list", <<89>>, "", Missing),  \* 88
     ObjAt("Expr", <<90>>, "", 23),  \* 89
     ObjAt("Name", <<>>, "c", 23),  \* 90
     ObjAt("TryFinally", <<92, 112>>, "", 24),  \* 91
     ObjAt("list", <<93, 110>>, "", Missing),  \* 92
     ObjAt("TryExcept", <<94, 97, 109>>, "", 25),  \* 93
     ObjAt("list", <<95>>, "", Missing),  \* 94
     ObjAt("Expr", <<96>>, "", 26),  \* 95
     ObjAt("Name", <<>>, "b", 26),  \* 96
     ObjAt("list", <<98, 104>>, "", Missing),  \* 97
     ObjAt("ExceptHandler", <<Empty, Empty, 99>>, "", 27),  \* 98
     ObjAt("list", <<100, 102>>, "", Missing),  \* 99
     ObjAt("Expr", <<101>>, "", 28),  \* 100
     ObjAt("Name", <<>>, "c", 28),  \* 101
     ObjAt("Expr", <<103>>, "", 29),  \* 102
     ObjAt("Name", <<>>, "d", 29),  \* 103
     ObjAt("ExceptHandler", <<105, Empty, 106>>, "", 30),  \* 104
     ObjAt("Name", <<>>, "E", 30),  \* 105
     ObjAt("list", <<107>>, "", Missing),  \* 106
     ObjAt("Expr", <<108>>, "", 31),  \* 107
     ObjAt("Name", <<>>, "e", 31),  \* 108
     ObjAt("list", <<>>, "", Missing),  \* 109
     ObjAt("Expr", <<111>>, "", 32),  \* 110
     ObjAt("Name", <<>>, "f", 32),  \* 111
     ObjAt("list", <<113>>, "", Missing),  \* 112
     ObjAt("Expr", <<114>>, "", 34),  \* 113
     ObjAt("Name", <<>>, "g", 34),  \* 114
     ObjAt("For", <<116, 117, 118, 121>>, "", 35),  \* 115
     ObjAt("AssignName", <<>>, "x", 35),  \* 116
     ObjAt("Name", <<>>, "y", 35),  \* 117
     ObjAt("list", <<119>>, "", Missing),  \* 118
     ObjAt("Expr", <<120>>, "", 36),  \* 119
     ObjAt("Name", <<>>, "b", 36),  \* 120
     ObjAt("list", <<>>, "", Missing),  \* 121
     ObjAt("If", <<123, 124, 127>>, "", 37),  \* 122
     ObjAt("Name", <<>>, "a", 37),  \* 123
     ObjAt("list", <<125>>, "", Missing),  \* 124
     ObjAt("Expr", <<126>>, "", 38),  \* 125
     ObjAt("Name", <<>>, "b", 38),  \* 126
     ObjAt("list", <<>>, "", Missing)  \* 127
  >>

\* The Module objects of HeapL.
Modules == {1, 30}

\* The highest line a caller asks about, two past the last line of HeapL.
MaxLine == 40

Lines == 0..MaxLine

\* fromlineno: the lineno attribute; Module sets both to 0 in its class body.
fromlineno(h, x) == h[x].lineno

RECURSIVE _last_child(_, _)
\* The loop of tolineno: descend into the last true child until there is none.
_last_child(h, x) ==
  IF ~Truthy(h, x) THEN x
  ELSE LET truthy == {i \in 1..Len(Children(h, x)) : Truthy(h, Children(h, x)[i])}
       IN IF truthy = {} THEN x
          ELSE _last_child(h, Children(h, x)[CHOOSE i \in truthy : \A j \in truthy : j <= i])

tolineno(h, x) == h[_last_child(h, x)].lineno

\* A list field of a node, first and last element.
First(h, l) == h[l].fields[1]

Last(h, l) == h[l].fields[Len(h[l].fields)]

\* BaseNode.block_range.
OwnSpan(h, self, lineno) == <<fromlineno(h, self), tolineno(h, self)>>

BaseNode_block_range(h, self, lineno) == <<lineno, tolineno(h, self)>>

\* Module.block_range.
Module_block_range(h, self, lineno) == <<fromlineno(h, self), tolineno(h, self)>>

\* `last or self.tolineno`: last is None or a number, and None and 0 both
\* give way to tolineno; last = 0 stands for both.
_elsed_block_range(h, self, lineno, orelse, last) ==
  IF lineno = fromlineno(h, self) THEN <<lineno, lineno>>
  ELSE IF Truthy(h, orelse)
  THEN IF lineno >= fromlineno(h, First(h, orelse))
       THEN <<lineno, tolineno(h, Last(h, orelse))>>
       ELSE <<lineno, fromlineno(h, First(h, orelse)) - 1>>
  ELSE <<lineno, IF last # 0 THEN last ELSE tolineno(h, self)>>

\* If: fields test, body, orelse.
If_block_range(h, self, lineno) ==
  IF lineno = fromlineno(h, First(h, h[self].fields[2])) THEN <<lineno, lineno>>
  ELSE IF lineno <= tolineno(h, Last(h, h[self].fields[2]))
  THEN <<lineno, tolineno(h, Last(h, h[self].fields[2]))>>
  ELSE _elsed_block_range(h, self, lineno, h[self].fields[3],
                          fromlineno(h, First(h, h[self].fields[2])) - 1)

\* While: fields test, body, orelse.
While_block_range(h, self, lineno) ==
  _elsed_block_range(h, self, lineno, h[self].fields[3], 0)

\* ExceptHandler: fields type, name, body.
HandlerTypeAt(h, exhandler, lineno) ==
  Truthy(h, h[exhandler].fields[1]) /\ lineno = fromlineno(h, h[exhandler].fields[1])

HandlerBodyOpen(h, exhandler, lineno) ==
  /\ fromlineno(h, First(h, h[exhandler].fields[3])) <= lineno
  /\ lineno < tolineno(h, Last(h, h[exhandler].fields[3]))

HandlerBodyHolds(h, exhandler, lineno) ==
  /\ fromlineno(h, First(h, h[exhandler].fields[3])) <= lineno
  /\ lineno <= tolineno(h, Last(h, h[exhandler].fields[3]))

RECURSIVE HandlersFrom(_, _, _, _, _)
\* The loop of TryExcept.block_range from the i-th handler on, last being
\* what the handlers before it left (0 for None).
HandlersFrom(h, self, lineno, i, last) ==
  IF i > Len(h[h[self].fields[2]].fields)
  THEN _elsed_block_range(h, self, lineno, h[self].fields[3], last)
  ELSE IF HandlerTypeAt(h, h[h[self].fields[2]].fields[i], lineno)
  THEN <<lineno, lineno>>
  ELSE IF HandlerBodyHolds(h, h[h[self].fields[2]].fields[i], lineno)
  THEN <<lineno, tolineno(h, Last(h, h[h[h[self].fields[2]].fields[i]].fields[3]))>>
  ELSE HandlersFrom(h, self, lineno, i + 1,
                    IF i = 1
                    THEN fromlineno(h, First(h, h[h[h[self].fields[2]].fields[i]].fields[3])) - 1
                    ELSE last)

RECURSIVE HandlersBodyFirst(_, _, _, _, _)
HandlersBodyFirst(h, self, lineno, i, last) ==
  IF i > Len(h[h[self].fields[2]].fields)
  THEN _elsed_block_range(h, self, lineno, h[self].fields[3], last)
  ELSE IF HandlerBodyHolds(h, h[h[self].fields[2]].fields[i], lineno)
  THEN <<lineno, tolineno(h, Last(h, h[h[h[self].fields[2]].fields[i]].fields[3]))>>
  ELSE HandlersBodyFirst(h, self, lineno, i + 1,
                    IF i = 1
                    THEN fromlineno(h, First(h, h[h[h[self].fields[2]].fields[i]].fields[3])) - 1
                    ELSE last)

TryExceptBodyFirst(h, self, lineno) == HandlersBodyFirst(h, self, lineno, 1, 0)

\* TryExcept: fields body, handlers, orelse.
TryExcept_block_range(h, self, lineno) == HandlersFrom(h, self, lineno, 1, 0)

TryFinallyNoDelegation(h, self, lineno) ==
  _elsed_block_range(h, self, lineno, h[self].fields[2], 0)

\* TryFinally: fields body, finalbody.
TryFinally_block_range(h, self, lineno) ==
  IF /\ h[First(h, h[self].fields[1])].cls = "TryExcept"
     /\ fromlineno(h, First(h, h[self].fields[1])) = fromlineno(h, self)
     /\ lineno > fromlineno(h, self)
     /\ lineno <= tolineno(h, First(h, h[self].fields[1]))
  THEN TryExcept_block_range(h, First(h, h[self].fields[1]), lineno)
  ELSE _elsed_block_range(h, self, lineno, h[self].fields[2], 0)

\* node.block_range(lineno): the method of the node's class.  For defines
\* none and inherits BaseNode's through Statement.
block_range(h, self, lineno) ==
  CASE h[self].cls = "If" -> If_block_range(h, self, lineno)
    [] h[self].cls = "While" -> While_block_range(h, self, lineno)
    [] h[self].cls = "TryExcept" -> TryExcept_block_range(h, self, lineno)
    [] h[self].cls = "TryFinally" -> TryFinally_block_range(h, self, lineno)
    [] h[self].cls = "Module" -> Module_block_range(h, self, lineno)
    [] OTHER -> BaseNode_block_range(h, self, lineno)

\* A caller holds a cursor on the tree of one module.
InitLines ==
  /\ heap = HeapL
  /\ \E m \in Modules :
       /\ cur = Zipper(m, <<>>)
       /\ res = Result("Zipper", Zipper(m, <<>>), m, <<>>,
                       Outcome(<<Zipper(m, <<>>)>>, HeapL, FALSE), HeapL)
  /\ nedits = 0
  /\ gen = NoGen

\* It asks the node under the cursor for the block range of a line; the
\* cursor hands the call on to the node it wraps.
BlockRange ==
  \E l \in Lines :
    /\ cur.focus # Empty
    /\ heap[cur.focus].cls # "list"
    /\ res' = [op |-> "block_range", recv |-> cur.focus, arg |-> l,
               out |-> block_range(heap, cur.focus, l)]
    /\ UNCHANGED <<heap, cur, nedits, gen>>

NextLines ==
  \/ WalkDown
  \/ WalkRight
  \/ WalkUp
  \/ BlockRange

SpecLines == InitLines /\ [][NextLines]_vars

\* ---------------------------------------------------------------- arguments

\* The most parameters and the most defaults of a raw arguments node.
MaxParams == 3

\* How long the padding loop of _build_args may make the deque of defaults.
MaxDeque == 5

\* The raw parameters: ast.arg nodes without annotation, by name.
ParamNames == <<"a", "b", "c", "d">>

\* A raw default is a node of the parser, ast.Num or ast.Name; the padding
\* puts nodes.Empty into the same deque.
RawNode(ast, v) == [ast |-> ast, v |-> v]

EmptyEntry == RawNode("Empty", "")

RawDefaults == {RawNode("Num", "1"), RawNode("Name", "x")}

\* self.visit(default): visit_num makes a Const of the number, visit_name a
\* Name of the identifier.  The new object is put at the end of the heap.
visit(h, raw) ==
  Append(h, Obj(IF raw.ast = "Num" THEN "Const" ELSE "Name", <<>>, raw.v))

\* _build_args is about to run on the args and the defaults of a raw
\* arguments node.
InitArguments ==
  /\ heap = <<>>
  /\ cur = Zipper(Empty, <<>>)
  /\ nedits = 0
  /\ \E n \in 0..MaxParams, k \in 0..MaxParams :
       \E defaults \in [1..k -> RawDefaults] :
         /\ gen = [kind |-> "_build_args", pc |-> "pad",
                   rest |-> SubSeq(ParamNames, 1, n), defaults |-> defaults]
         /\ res = [op |-> "_build_args", params |-> SubSeq(ParamNames, 1, n),
                   defaults |-> defaults, out |-> <<>>]

\* One turn of `while len(defaults) != len(params)`: appendleft(Empty).
PadRight(defaults) == Append(defaults, EmptyEntry)

PadLeft(defaults) == <<EmptyEntry>> \o defaults

Pad ==
  /\ gen.kind = "_build_args"
  /\ gen.pc = "pad"
  /\ Len(gen.defaults) # Len(gen.rest)
  /\ Len(gen.defaults) < MaxDeque
  /\ gen' = [gen EXCEPT !.defaults = PadLeft(gen.defaults)]
  /\ UNCHANGED <<heap, cur, res, nedits>>

\* The padding is over, or the for loop is at its next turn.
InLoop ==
  /\ gen.kind = "_build_args"
  /\ \/ gen.pc = "pad" /\ Len(gen.defaults) = Len(gen.rest)
     \/ gen.pc = "loop"

\* The heap after `if default: default = self.visit(default)`, and the
\* default handed to the parameter.
Visited(h, default) == IF default.ast # "Empty" THEN visit(h, default) ELSE h

DefaultIn(h, default) == IF default.ast # "Empty" THEN Len(h) + 1 ELSE Empty

\* One turn of the for loop: popleft, visit, and the Parameter that
\* ParameterVisitor._build_parameter yields, which list() appends.
YieldParameter ==
  /\ InLoop
  /\ gen.rest # <<>>
  /\ heap' = Append(Visited(heap, Head(gen.defaults)),
                    Obj("Parameter",
                        <<DefaultIn(heap, Head(gen.defaults)), Empty>>,
                        Head(gen.rest)))
  /\ res' = [res EXCEPT !.out = Append(@, Len(heap'))]
  /\ gen' = [gen EXCEPT !.pc = "loop", !.rest = Tail(@), !.defaults = Tail(@)]
  /\ UNCHANGED <<cur, nedits>>

\* The for loop is over: the generator returns and list() has the
\* parameters.
ReturnParameters ==
  /\ InLoop
  /\ gen.rest = <<>>
  /\ gen' = [gen EXCEPT !.pc = "done"]
  /\ UNCHANGED <<heap, cur, res, nedits>>

NextArguments ==
  \/ Pad
  \/ YieldParameter
  \/ ReturnParameters

SpecArguments == InitArguments /\ [][NextArguments]_vars

\* ------------------------------------------------------------- try statements

\* The most statements in the body and in the finally block of a raw Try,
\* and the most handlers.
MaxBlock == 2

MaxHandlers == 2

\* The highest level of a relative import.
MaxLevel == 4

\* The most lines of a source file.
MaxFileLines == 3

\* The first lines a raw Try may be on.
TryLines == {1, 2}

\* The lines lo..hi as a sequence: a block of one-line statements.
LinesFrom(lo, n) == [i \in 1..n |-> lo + i - 1]

\* The raw handler of the i-th except clause of a Try on line l with nbody
\* body statements: the clause on one line, one statement on the next.
\* type is the name of the exception, "" for a bare except (type is None).
RawHandler(l, nbody, i, type) ==
  [lineno |-> l + nbody + 2 * i - 1, type |-> type,
   body |-> <<l + nbody + 2 * i>>]

\* The ast.Try node the parser makes of
\*   try: <nbody statements> {except [E]: <statement>} [else: <statement>]
\*   [finally: <nfinal statements>]
\* starting on line l, every statement a pass on a line of its own.
RawTry(l, nbody, types, haselse, nfinal) ==
  [lineno |-> l,
   body |-> LinesFrom(l + 1, nbody),
   handlers |-> [i \in 1..Len(types) |-> RawHandler(l, nbody, i, types[i])],
   orelse |-> IF haselse THEN <<l + nbody + 2 * Len(types) + 2>> ELSE <<>>,
   finalbody |-> LinesFrom(l + nbody + 2 * Len(types)
                             + (IF haselse THEN 2 ELSE 0) + 2, nfinal)]

\* The handler types the grammar allows: a bare except comes last.
HandlerTypes ==
  {types \in UNION {[1..n -> {"", "E"}] : n \in 0..MaxHandlers} :
     \A i \in 1..Len(types) : types[i] = "" => i = Len(types)}

\* The Try nodes the parser produces: an else needs a handler, and a try
\* without handler has a finally block.
RawTries ==
  {RawTry(l, nbody, types, haselse, nfinal) :
     l \in TryLines, nbody \in 1..MaxBlock,
     types \in HandlerTypes, haselse \in BOOLEAN, nfinal \in 0..MaxBlock}

ParsedTries ==
  {t \in RawTries : /\ t.handlers # <<>> \/ t.finalbody # <<>>
                    /\ t.orelse # <<>> => t.handlers # <<>>}

\* [self.visit(child) for child in stmts], every child a pass statement:
\* the Pass nodes and then the list of them, at the end of the heap.
VisitBlock(h, stmts) ==
  Append(h \o [i \in 1..Len(stmts) |-> ObjAt("Pass", <<>>, "", stmts[i])],
         ObjAt("list", [i \in 1..Len(stmts) |-> Len(h) + i], "", Missing))

\* _visit_or_empty(node, 'type', self): the Name of the exception, or Empty.
VisitType(h, handler) ==
  IF handler.type # ""
  THEN Append(h, ObjAt("Name", <<>>, handler.type, handler.lineno))
  ELSE h

TypeIn(h, handler) == IF handler.type # "" THEN Len(h) + 1 ELSE Empty

\* visit_excepthandler for a handler without name.
HandlerOver(type, h, handler) ==
  Append(h, ObjAt("ExceptHandler", <<type, Empty, Len(h)>>, "", handler.lineno))

visit_excepthandler(h, handler) ==
  HandlerOver(TypeIn(h, handler), VisitBlock(VisitType(h, handler), handler.body),
              handler)

RECURSIVE VisitHandlers(_, _, _)
RECURSIVE VisitHandlersNext(_, _, _)
\* [self.visit(child) for child in node.handlers]: ids collects the
\* handlers built so far.
VisitHandlers(h, handlers, ids) ==
  IF handlers = <<>> THEN Append(h, ObjAt("list", ids, "", Missing))
  ELSE VisitHandlersNext(visit_excepthandler(h, Head(handlers)), Tail(handlers), ids)

VisitHandlersNext(h, handlers, ids) == VisitHandlers(h, handlers, Append(ids, Len(h)))

\* visit_tryexcept: body, handlers and orelse are rebuilt in that order.
visit_tryexcept(h, node) ==
  LET hb == VisitBlock(h, node.body)
      hh == VisitHandlers(hb, node.handlers, <<>>)
      ho == VisitBlock(hh, node.orelse)
  IN Append(ho, ObjAt("TryExcept", <<Len(hb), Len(hh), Len(ho)>>, "", node.lineno))

\* [self.visit_tryexcept(node)]
ListOfLast(h) == Append(h, ObjAt("list", <<Len(h)>>, "", Missing))

\* What a visit returns: the heap after it and the node, <<>> for None.
Built(h, out) == [h |-> h, out |-> out]

BuiltLast(h) == Built(h, <<Len(h)>>)

TryFinallyOver(hb, hf, node) ==
  BuiltLast(Append(hf, ObjAt("TryFinally", <<Len(hb), Len(hf)>>, "", node.lineno)))

TryFinallyAfter(hb, node) == TryFinallyOver(hb, VisitBlock(hb, node.finalbody), node)

\* visit_try with the try/except dropped: the body statements directly
\* under the TryFinally.
visit_tryBodyOnly(h, node) ==
  IF node.finalbody # <<>>
  THEN TryFinallyAfter(VisitBlock(h, node.body), node)
  ELSE IF node.handlers # <<>> THEN BuiltLast(visit_tryexcept(h, node))
  ELSE Built(h, <<>>)

\* visit_try; without finalbody and without handlers the function ends
\* without a return statement.
visit_try(h, node) ==
  IF node.finalbody # <<>>
  THEN TryFinallyAfter(IF node.handlers # <<>>
                       THEN ListOfLast(visit_tryexcept(h, node))
                       ELSE VisitBlock(h, node.body), node)
  ELSE IF node.handlers # <<>> THEN BuiltLast(visit_tryexcept(h, node))
  ELSE Built(h, <<>>)

\* The parser has made a Try node.
InitTry ==
  /\ heap = <<>>
  /\ cur = Zipper(Empty, <<>>)
  /\ nedits = 0
  /\ gen = NoGen
  /\ \E t \in ParsedTries : res = [op |-> "parse", node |-> t, out |-> <<>>]

VisitTryTo(r) ==
  /\ heap' = r.h
  /\ res' = [res EXCEPT !.op = "visit_try", !.out = r.out]
  /\ UNCHANGED <<cur, nedits, gen>>

\* The rebuilder visits it.
VisitTry == res.op = "parse" /\ VisitTryTo(visit_try(heap, res.node))

NextTry == VisitTry

SpecTry == InitTry /\ [][NextTry]_vars

\* ---------------------------------------------------------------- equality

\* The tree of
\*   [i for a in D]
\*   [i for a in D]
\*   x
\*   x
\*   y
\*   x = x
\*   async def g():
\*       for x in y: pass
\*       async for x in y: pass
\* For and AsyncFor: target, iter, body, orelse.
HeapE ==
  <<
     Obj("Module", <<2>>, "m"),  \* 1
     Obj("list", <<3, 10, 17, 19, 21, 23, 27>>, ""),  \* 2
     Obj("Expr", <<4>>, ""),  \* 3
     Obj("ListComp", <<5, 9>>, ""),  \* 4
     Obj("list", <<6>>, ""),  \* 5
     Obj("Comprehension", <<7, 8, Missing>>, ""),  \* 6
     Obj("AssignName", <<>>, "a"),  \* 7
     Obj("Name", <<>>, "D"),  \* 8
     Obj("Name", <<>>, "i"),  \* 9
     Obj("Expr", <<11>>, ""),  \* 10
     Obj("ListComp", <<12, 16>>, ""),  \* 11
     Obj("list", <<13>>, ""),  \* 12
     Obj("Comprehension", <<14, 15, Missing>>, ""),  \* 13
     Obj("AssignName", <<>>, "a"),  \* 14
     Obj("Name", <<>>, "D"),  \* 15
     Obj("Name", <<>>, "i"),  \* 16
     Obj("Expr", <<18>>, ""),  \* 17
     Obj("Name", <<>>, "x"),  \* 18
     Obj("Expr", <<20>>, ""),  \* 19
     Obj("Name", <<>>, "x"),  \* 20
     Obj("Expr", <<22>>, ""),  \* 21
     Obj("Name", <<>>, "y"),  \* 22
     Obj("Assign", <<24, 26>>, ""),  \* 23
     Obj("list", <<25>>, ""),  \* 24
     Obj("AssignName", <<>>, "x"),  \* 25
     Obj("Name", <<>>, "x"),  \* 26
     Obj("AsyncFunctionDef", <<Empty, 28, 32, Empty>>, "g"),  \* 27
     Obj("Arguments", <<29, Empty, Empty, 30, 31>>, ""),  \* 28
     Obj("list", <<>>, ""),  \* 29
     Obj("list", <<>>, ""),  \* 30
     Obj("list", <<>>, ""),  \* 31
     Obj("list", <<33, 39>>, ""),  \* 32
     Obj("For", <<34, 35, 36, 38>>, ""),  \* 33
     Obj("AssignName", <<>>, "x"),  \* 34
     Obj("Name", <<>>, "y"),  \* 35
     Obj("list", <<37>>, ""),  \* 36
     Obj("Pass", <<>>, ""),  \* 37
     Obj("list", <<>>, ""),  \* 38
     Obj("AsyncFor", <<40, 41, 42, 44>>, ""),  \* 39
     Obj("AssignName", <<>>, "x"),  \* 40
     Obj("Name", <<>>, "y"),  \* 41
     Obj("list", <<43>>, ""),  \* 42
     Obj("Pass", <<>>, ""),  \* 43
     Obj("list", <<>>, "")  \* 44
  >>

\* all(...) and `and` go on after a true comparison and stop at a false
\* one; an exception leaves them at once.
AndThen(r, rest) == IF r = "True" THEN rest ELSE r

RECURSIVE NodeEq(_, _, _)
RECURSIVE FieldsEq(_, _, _, _)
RECURSIVE ValueEq(_, _, _)
RECURSIVE ItemsEq(_, _, _, _)

\* list.__eq__ from the i-th element on: an element that is the same
\* object on both sides counts as equal without being compared.
ItemsEq(h, x, y, i) ==
  IF i > Len(h[x].fields) THEN "True"
  ELSE IF h[x].fields[i] = h[y].fields[i] THEN ItemsEq(h, x, y, i + 1)
  ELSE AndThen(ValueEq(h, h[x].fields[i], h[y].fields[i]), ItemsEq(h, x, y, i + 1))

\* x == y for two values of child fields: lists compare their lengths and
\* then their elements, a node and a list are of different classes.
ValueEq(h, x, y) ==
  IF IsList(h, x) /\ IsList(h, y)
  THEN IF Len(h[x].fields) # Len(h[y].fields) THEN "False"
       ELSE ItemsEq(h, x, y, 1)
  ELSE IF IsList(h, x) \/ IsList(h, y) THEN "False"
  ELSE NodeEq(h, x, y)

\* The two all(...) of __eq__ from the k-th child field on; getattr raises
\* AttributeError at a field the object does not have.  name stands for
\* the fields of _other_fields.
FieldsEq(h, self, other, k) ==
  IF k > Len(Children(h, self))
  THEN IF self = Empty \/ h[self].name = h[other].name THEN "True" ELSE "False"
  ELSE IF h[self].fields[k] = Missing \/ h[other].fields[k] = Missing THEN "raise"
  ELSE AndThen(ValueEq(h, h[self].fields[k], h[other].fields[k]),
               FieldsEq(h, self, other, k + 1))

\* BaseNode.__eq__
NodeEq(h, self, other) ==
  IF ClassOf(h, self) = ClassOf(h, other)
  THEN FieldsEq(h, self, other, 1)
  ELSE "False"

\* A caller holds a cursor on the module.
InitEq ==
  /\ heap = HeapE
  /\ cur = Zipper(1, <<>>)
  /\ res = Result("Zipper", Zipper(1, <<>>), 1, <<>>,
                  Outcome(<<Zipper(1, <<>>)>>, HeapE, FALSE), HeapE)
  /\ nedits = 0
  /\ gen = NoGen

\* It compares the node under the cursor with a node of the tree; the
\* cursor hands __eq__ on to the node it wraps.
Compare ==
  \E other \in 1..Len(heap) :
    /\ cur.focus # Empty
    /\ ~IsList(heap, cur.focus)
    /\ ~IsList(heap, other)
    /\ res' = [op |-> "==", recv |-> cur.focus, arg |-> other,
               out |-> NodeEq(heap, cur.focus, other)]
    /\ UNCHANGED <<heap, cur, nedits, gen>>

NextEq ==
  \/ WalkDown
  \/ WalkRight
  \/ WalkUp
  \/ Compare

SpecEq == InitEq /\ [][NextEq]_vars

\* ---------------------------------------------------------- relative names

\* nodes.Module(name=..., package=...), with what _post_build records of
\* "from __future__ import ..." statements.  A name is a string; here the
\* sequence of its characters.
ModuleNamed(name, package, future_imports) ==
  [cls |-> "Module", fields |-> <<>>, name |-> name, package |-> package,
   future_imports |-> future_imports]

\* Module.absolute_import_activated()
absolute_import_activated(mod) ==
  IF PY3 THEN TRUE ELSE "absolute_import" \in mod.future_imports

\* s.count('.')
count(s) == Cardinality({k \in 1..Len(s) : s[k] = "."})

\* s.rsplit('.', n)[0] for n >= 0: s up to the n-th dot from the right, or
\* up to its first dot when it has fewer.
RECURSIVE rsplit(_, _)
rsplit(s, n) ==
  IF n = 0 \/ count(s) = 0 THEN s
  ELSE LET dot == CHOOSE k \in 1..Len(s) :
                    s[k] = "." /\ \A j \in (k + 1)..Len(s) : s[j] # "."
       IN rsplit(SubSeq(s, 1, dot - 1), n - 1)

\* What a call of relative_to_absolute_name gave: a name, or
\* TooManyLevelsError with its fields.
Outcome_name(out, err, level, name) ==
  [out |-> out, err |-> err, level |-> level, name |-> name]

\* The tail of relative_to_absolute_name, from "if package_name:".
Qualified(package_name, modname) ==
  Outcome_name(IF package_name = <<>> THEN modname
               ELSE IF modname = <<>> THEN package_name
               ELSE package_name \o <<".">> \o modname,
               "", 0, <<>>)

\* The same with the decrement for a package left out.
relative_to_absolute_nameOfPlainModule(mod, modname, level) ==
  IF absolute_import_activated(mod) /\ level = <<>> THEN Outcome_name(modname, "", 0, <<>>)
  ELSE IF level # <<>> /\ level[1] # 0
  THEN IF count(mod.name) < level[1]
       THEN Outcome_name(<<>>, "TooManyLevelsError", level[1], mod.name)
       ELSE Qualified(rsplit(mod.name, level[1]), modname)
  ELSE IF mod.package THEN Qualified(mod.name, modname)
  ELSE Qualified(rsplit(mod.name, 1), modname)

\* Module.relative_to_absolute_name(modname, level)
relative_to_absolute_name(mod, modname, level) ==
  IF absolute_import_activated(mod) /\ level = <<>> THEN Outcome_name(modname, "", 0, <<>>)
  ELSE IF level # <<>> /\ level[1] # 0
  THEN LET lv == IF mod.package THEN level[1] - 1 ELSE level[1]
       IN IF lv # 0 /\ count(mod.name) < lv
          THEN Outcome_name(<<>>, "TooManyLevelsError", lv, mod.name)
          ELSE Qualified(rsplit(mod.name, lv), modname)
  ELSE IF mod.package THEN Qualified(mod.name, modname)
  ELSE Qualified(rsplit(mod.name, 1), modname)

\* A module is made, its name of no dot, one or two, or empty.
InitNames ==
  /\ \E name \in {<<>>, <<"a">>, <<"a", ".", "b">>, <<"a", ".", "b", ".", "c">>},
        package \in BOOLEAN,
        future_imports \in {{}, {"absolute_import"}} :
       heap = <<ModuleNamed(name, package, future_imports)>>
  /\ cur = Zipper(1, <<>>)
  /\ res = [op |-> "Module", recv |-> 1]
  /\ nedits = 0
  /\ gen = NoGen

\* An import statement of the module is resolved: what it names ('' for
\* "from . import x") at a level, <<>> for None and <<n>> for the integer n.
RelativeToAbsoluteName ==
  \E modname \in {<<>>, <<"u">>, <<"u", ".", "v">>},
     level \in {<<>>} \cup {<<n>> : n \in 0..MaxLevel} :
    /\ res' = [op |-> "relative_to_absolute_name", recv |-> 1,
               modname |-> modname, level |-> level,
               raised |-> relative_to_absolute_name(heap[1], modname, level)]
    /\ UNCHANGED <<heap, cur, nedits, gen>>

NextNames == RelativeToAbsoluteName

SpecNames == InitNames /\ [][NextNames]_vars

\* ---------------------------------------------------------------- file_build

\* The lines of a source file, by what their bytes are:
\*   "code"             x = 1                     (ASCII, parses)
\*   "bad"              x =                       (ASCII, does not parse)
\*   "comment"          # c                       (ASCII)
\*   "coding: latin-1"  # -*- coding: latin-1 -*-
\*   "coding: ascii"    # -*- coding: ascii -*-
\*   "coding: lala"     # -*- coding: lala -*-    (no such codec)
\*   "high"             # \xe9                    (e-acute in Latin-1; not
\*                                                 UTF-8, not ASCII)
LineKinds ==
  {"code", "bad", "comment", "coding: latin-1", "coding: ascii",
   "coding: lala", "high"}

\* What may be at the path asked for: no file, or a file of some lines.  One
\* path is below an entry of sys.path, the other is not.
Files ==
  LET Paths == {"pkg/m.py", "tmp/t.py"}
      File(path, exists, lines) ==
        [cls |-> "File", fields |-> <<>>, name |-> path, exists |-> exists,
         lines |-> lines]
  IN {File(p, FALSE, <<>>) : p \in Paths}
       \cup {File(p, TRUE, l) :
               p \in Paths,
               l \in UNION {[1..n -> LineKinds] : n \in 0..MaxFileLines}}

\* detect_encoding(byte_stream.readline)[0]: the declaration of the first
\* line, or of the second when the first is blank, or 'utf-8'.  find_cookie
\* decodes the line as UTF-8, searches it for a declaration and looks the
\* codec up; <<>> is None.
detect_encoding(lines) ==
  LET raise == [err |-> "SyntaxError", encoding |-> <<>>]
      find_cookie(line) ==
        IF line = "high" THEN raise
        ELSE IF line = "coding: lala" THEN raise
        ELSE IF line = "coding: latin-1"
        THEN [err |-> "", encoding |-> <<"iso-8859-1">>]
        ELSE IF line = "coding: ascii" THEN [err |-> "", encoding |-> <<"ascii">>]
        ELSE [err |-> "", encoding |-> <<>>]
      found(line) == find_cookie(line).err # "" \/ find_cookie(line).encoding # <<>>
      blank(line) == line \notin {"code", "bad"}
      default == [err |-> "", encoding |-> <<"utf-8">>]
  IN IF lines = <<>> THEN default
     ELSE IF found(lines[1]) THEN find_cookie(lines[1])
     ELSE IF ~blank(lines[1]) \/ Len(lines) < 2 THEN default
     ELSE IF found(lines[2]) THEN find_cookie(lines[2])
     ELSE default

\* Whether the bytes of a line decode with a codec.
Decodes(line, encoding) == line # "high" \/ encoding = "iso-8859-1"

\* _guess_encoding(string) of Python 2: the declaration within the first
\* two lines, or None; the codec is not looked up.
_guess_encoding(lines) ==
  LET named(line) == IF line = "coding: latin-1" THEN <<"latin-1">>
                     ELSE IF line = "coding: ascii" THEN <<"ascii">>
                     ELSE IF line = "coding: lala" THEN <<"lala">>
                     ELSE <<>>
  IN IF Len(lines) >= 1 /\ named(lines[1]) # <<>> THEN named(lines[1])
     ELSE IF Len(lines) >= 2 THEN named(lines[2])
     ELSE <<>>

\* open_source_file(filename): the exception it raised or '', the handles
\* it opened in order, each with its mode and whether it has been closed,
\* and the stream (its index among them), encoding and data it returned.
open_source_file(file) ==
  LET Handle(mode, closed) == [mode |-> mode, closed |-> closed]
      Opened(err, handles, stream, encoding, data) ==
        [err |-> err, handles |-> handles, stream |-> stream,
         encoding |-> encoding, data |-> data]
      encoding == detect_encoding(file.lines).encoding
  IN IF ~file.exists THEN Opened("IOError", <<>>, 0, <<>>, <<>>)
     ELSE IF ~PY3
     THEN Opened("", <<Handle("U", FALSE)>>, 1, _guess_encoding(file.lines),
                 file.lines)
     ELSE IF detect_encoding(file.lines).err # ""
     THEN Opened("SyntaxError", <<Handle("rb", TRUE)>>, 0, <<>>, <<>>)
     ELSE IF \E k \in 1..Len(file.lines) : ~Decodes(file.lines[k], encoding[1])
     THEN Opened("UnicodeDecodeError",
                 <<Handle("rb", TRUE), Handle("r", FALSE)>>, 0, <<>>, <<>>)
     ELSE Opened("", <<Handle("rb", TRUE), Handle("r", FALSE)>>, 2,
                 encoding, file.lines)

\* AstroidBuilder.file_build(path, modname): the module it returned or <<>>,
\* the exception it raised with the fields given to it (<<>> is a field it
\* was not given), and the handles opened on the way.  In the handler of
\* UnicodeError the local variable encoding is read; the assignment that
\* would have bound it is the one that raised.
file_build(file, modname) ==
  LET o == open_source_file(file)
      path == file.name
      Raised(type, at, error) ==
        [type |-> type, path |-> at, filename |-> <<>>, encoding |-> <<>>,
         error |-> error]
      Build(out, raised, handles) ==
        [out |-> out, raised |-> raised, handles |-> handles]
      \* leaving "with stream:"
      closing == [k \in 1..Len(o.handles) |->
                    IF k = o.stream
                    THEN [mode |-> o.handles[k].mode, closed |-> TRUE]
                    ELSE o.handles[k]]
      \* '.'.join(modutils.modpath_from_file(path)), or the base name of
      \* the file when that raises ImportError
      name == IF modname # <<>> THEN modname[1]
              ELSE IF path = "pkg/m.py" THEN "pkg.m" ELSE "t"
  IN IF o.err = "IOError"
     THEN Build(<<>>, Raised("AstroidBuildingError", <<path>>, <<"IOError">>),
                o.handles)
     ELSE IF o.err \in {"SyntaxError", "LookupError"}
     THEN Build(<<>>, Raised("AstroidSyntaxError", <<path>>, <<o.err>>),
                o.handles)
     ELSE IF o.err = "UnicodeDecodeError"
     THEN Build(<<>>, Raised("UnboundLocalError", <<>>, <<>>), o.handles)
     \* _data_build and _post_build
     ELSE IF \E k \in 1..Len(o.data) : o.data[k] = "bad"
     THEN Build(<<>>, Raised("AstroidSyntaxError", <<path>>, <<"SyntaxError">>),
                closing)
     ELSE Build(<<[cls |-> "Module", name |-> name,
                   file_encoding |-> o.encoding]>>,
                Raised("", <<>>, <<>>), closing)

\* There is a file at a path, or none.
InitBuild ==
  /\ \E file \in Files : heap = <<file>>
  /\ cur = Zipper(1, <<>>)
  /\ res = [op |-> "AstroidBuilder", recv |-> 1]
  /\ nedits = 0
  /\ gen = NoGen

\* The file is built, under a given module name or none.
FileBuild ==
  \E modname \in {<<>>, <<"m">>} :
    /\ res' = [op |-> "file_build", recv |-> 1, modname |-> modname,
               built |-> file_build(heap[1], modname)]
    /\ UNCHANGED <<heap, cur, nedits, gen>>

NextBuild == FileBuild

SpecBuild == InitBuild /\ [][NextBuild]_vars

\* --------------------------------------------------------------- last lines

\* lineno = None: BaseNode's class attribute, and what Arguments, Keyword
\* and Comprehension nodes are built with.
NoLine == -2

\* The tree the builder returns for
\*    1 def f() -> r:         6 @d                  11 x = (1,
\*    2     pass              7 def g(a=b):         12      2)
\*    3 class C(k=v):         8     return a
\*    4     pass              9 class B(A):
\*    5 [i for a in D]       10     pass
\* with the line of a decorated function that of its first decorator.
\* Child fields as in HeapS, and Keyword (value), Return (value), Tuple
\* (elts); a class without decorators has the empty list for them.
HeapT ==
  <<
     ObjAt("Module", <<2>>, "t", 0),  \* 1
     ObjAt("list", <<3, 11, 19, 26, 39, 46>>, "", Missing),  \* 2
     ObjAt("FunctionDef", <<Empty, 4, 8, 10>>, "f", 1),  \* 3
     ObjAt("Arguments", <<5, Empty, Empty, 6, 7>>, "", NoLine),  \* 4
     ObjAt("list", <<>>, "", Missing),  \* 5
     ObjAt("list", <<>>, "", Missing),  \* 6
     ObjAt("list", <<>>, "", Missing),  \* 7
     ObjAt("list", <<9>>, "", Missing),  \* 8
     ObjAt("Pass", <<>>, "", 2),  \* 9
     ObjAt("Name", <<>>, "r", 1),  \* 10
     ObjAt("ClassDef", <<12, 13, 14, 16>>, "C", 3),  \* 11
     ObjAt("list", <<>>, "", Missing),  \* 12
     ObjAt("list", <<>>, "", Missing),  \* 13
     ObjAt("list", <<15>>, "", Missing),  \* 14
     ObjAt("Pass", <<>>, "", 4),  \* 15
     ObjAt("list", <<17>>, "", Missing),  \* 16
     ObjAt("Keyword", <<18>>, "k", NoLine),  \* 17
     ObjAt("Name", <<>>, "v", 3),  \* 18
     ObjAt("Expr", <<20>>, "", 5),  \* 19
     ObjAt("ListComp", <<21, 25>>, "", 5),  \* 20
     ObjAt("list", <<22>>, "", Missing),  \* 21
     ObjAt("Comprehension", <<23, 24, Missing>>, "", NoLine),  \* 22
     ObjAt("AssignName", <<>>, "a", 5),  \* 23
     ObjAt("Name", <<>>, "D", 5),  \* 24
     ObjAt("Name", <<>>, "i", 5),  \* 25
     ObjAt("FunctionDef", <<27, 30, 36, Empty>>, "g", 6),  \* 26
     ObjAt("Decorators", <<28>>, "", 6),  \* 27
     ObjAt("list", <<29>>, "", Missing),  \* 28
     ObjAt("Name", <<>>, "d", 6),  \* 29
     ObjAt("Arguments", <<31, Empty, Empty, 34, 35>>, "", NoLine),  \* 30
     ObjAt("list", <<32>>, "", Missing),  \* 31
     ObjAt("Parameter", <<33, Empty>>, "a", 7),  \* 32
     ObjAt("Name", <<>>, "b", 7),  \* 33
     ObjAt("list", <<>>, "", Missing),  \* 34
     ObjAt("list", <<>>, "", Missing),  \* 35
     ObjAt("list", <<37>>, "", Missing),  \* 36
     ObjAt("Return", <<38>>, "", 8),  \* 37
     ObjAt("Name", <<>>, "a", 8),  \* 38
     ObjAt("ClassDef", <<40, 41, 43, 45>>, "B", 9),  \* 39
     ObjAt("list", <<>>, "", Missing),  \* 40
     ObjAt("list", <<42>>, "", Missing),  \* 41
     ObjAt("Name", <<>>, "A", 9),  \* 42
     ObjAt("list", <<44>>, "", Missing),  \* 43
     ObjAt("Pass", <<>>, "", 10),  \* 44
     ObjAt("list", <<>>, "", Missing),  \* 45
     ObjAt("Assign", <<47, 49>>, "", 11),  \* 46
     ObjAt("list", <<48>>, "", Missing),  \* 47
     ObjAt("AssignName", <<>>, "x", 11),  \* 48
     ObjAt("Tuple", <<50>>, "", 11),  \* 49
     ObjAt("list", <<51, 52>>, "", Missing),  \* 50
     ObjAt("Const", <<>>, "1", 11),  \* 51
     ObjAt("Const", <<>>, "2", 12)  \* 52
  >>

\* node.fromlineno: the lineno, and for a function (FunctionDef.fromlineno)
\* the line of the def statement, past the decorators.
fromlinenoOf(h, self) ==
  LET decorators == h[self].fields[1]
      nodes == IF Truthy(h, decorators) THEN h[h[decorators].fields[1]].fields
               ELSE <<>>
      RECURSIVE sum(_)
      sum(k) == IF k = 0 THEN 0
                ELSE tolineno(h, nodes[k]) - h[nodes[k]].lineno + 1 + sum(k - 1)
  IN IF h[self].cls \in {"FunctionDef", "AsyncFunctionDef"}
     THEN h[self].lineno + sum(Len(nodes))
     ELSE fromlineno(h, self)

RECURSIVE LastChildRaises(_, _)
\* Whether the loop of tolineno raises: it iterates over every object it
\* descends to.
LastChildRaises(h, x) ==
  IF ~Truthy(h, x) THEN FALSE
  ELSE IF IterationRaises(h, x) THEN TRUE
  ELSE LET truthy == {i \in 1..Len(Children(h, x)) : Truthy(h, Children(h, x)[i])}
       IN IF truthy = {} THEN FALSE
          ELSE LastChildRaises(h, Children(h, x)[CHOOSE i \in truthy : \A j \in truthy : j <= i])

\* node.tolineno: the line, or err when the loop raised or ended on a list,
\* which has no lineno.
TolinenoOutcome(h, x) ==
  IF LastChildRaises(h, x) THEN [line |-> NoLine, err |-> TRUE]
  ELSE IF IsList(h, _last_child(h, x)) THEN [line |-> NoLine, err |-> TRUE]
  ELSE [line |-> tolineno(h, x), err |-> FALSE]

\* A caller holds the cursor the builder returned.
InitLast ==
  /\ heap = HeapT
  /\ cur = Zipper(1, <<>>)
  /\ res = Result("Zipper", Zipper(1, <<>>), 1, <<>>,
                  Outcome(<<Zipper(1, <<>>)>>, HeapT, FALSE), HeapT)
  /\ nedits = 0
  /\ gen = NoGen

\* It asks the node under the cursor for its first and last line.
Tolineno ==
  /\ cur.focus # Empty
  /\ ~IsList(heap, cur.focus)
  /\ res' = [op |-> "tolineno", recv |-> cur.focus,
             from |-> fromlinenoOf(heap, cur.focus),
             out |-> TolinenoOutcome(heap, cur.focus)]
  /\ UNCHANGED <<heap, cur, nedits, gen>>

NextLast ==
  \/ WalkDown
  \/ WalkRight
  \/ WalkUp
  \/ Tolineno

SpecLast == InitLast /\ [][NextLast]_vars

\* ------------------------------------------------------------- the claims

\* The position of a cursor: the index among its siblings at every level,
\* from the root down.
PosOf(z) == _reverse([k \in 1..Len(z.path) |-> Len(z.path[k].left) + 1])

\* The object the root of the cursor's chain is.
RootOf(z) == IF z.path = <<>> THEN z.focus ELSE z.path[Len(z.path)].pnode

RECURSIVE NodeAt(_, _, _)
\* The object at a position below x.
NodeAt(h, x, pos) ==
  IF pos = <<>> THEN x ELSE NodeAt(h, Children(h, x)[Head(pos)], Tail(pos))

\* No replace() or edit() on the way to the cursor: every flag is clear and
\* the cursor is where its position says, in the tree as first built.
Unedited(z) ==
  /\ \A k \in 1..Len(z.path) : ~z.path[k].changed
  /\ RootOf(z) \in Roots
  /\ \A k \in 0..Len(z.path) :
       LET pos == SubSeq(PosOf(z), 1, Len(z.path) - k)
           at == IF k = 0 THEN z.focus ELSE z.path[k].pnode
       IN NodeAt(Heap0, RootOf(z), pos) = at

HasNoLeft(z) == z.path = <<>> \/ z.path[1].left = <<>>

HasNoRight(z) == z.path = <<>> \/ z.path[1].right = <<>>

\* C1: whatever the sequence of moves, replace() and edit() calls, the
\* objects of the original trees are as they were built and the trees are
\* structurally equal to their snapshot; what a call builds is added to the
\* heap.
C1_ZipperPurity ==
  /\ Len(heap) >= Len(Heap0)
  /\ \A i \in 1..Len(Heap0) : heap[i] = Heap0[i]
  /\ \A t \in Roots : TreeOf(heap, t) = TreeOf(Heap0, t)

\* C1's case: an edit was made below the root and root() of the newest
\* cursor shows a tree that differs from the original one.
C1_Witness ==
  /\ res.op \in {"up", "root"}
  /\ res.built > 0
  /\ cur.path = <<>>
  /\ TreeOf(heap, cur.focus) # TreeOf(Heap0, 1)
  /\ TreeOf(heap, 1) = TreeOf(Heap0, 1)

\* C2 as claimed: up() from a cursor whose path is dirty returns a cursor on
\* a freshly built object, not the parent itself, whose children are the
\* siblings in order with the new focus in place, and whose own path, when
\* it has one, is dirty.
C2_UpRebuildsParent ==
  (res.op = "up" /\ res.recv.path # <<>> /\ res.recv.path[1].changed) =>
    LET p == res.recv.path[1]
    IN /\ ~res.err
       /\ res.out # <<>>
       /\ res.built = 1
       /\ res.out[1].focus = Len(heap)
       /\ res.out[1].focus # p.pnode
       /\ Children(heap, res.out[1].focus)
            = _reverse(p.left) \o <<res.recv.focus>> \o p.right
       /\ res.out[1].path # <<>> => res.out[1].path[1].changed

\* C3: after a down() that found a child, up() of the cursor it returned is
\* the cursor down() was called on (the same focus object, the same path)
\* and builds nothing; and an up() over a clean flag returns the recorded
\* parent object and builds nothing.
C3_DownUpIdentity ==
  /\ (res.op = "down" /\ res.out # <<>>) =>
        up(heap, res.out[1]) = Outcome(<<res.recv>>, heap, FALSE)
  /\ (res.op = "up" /\ res.recv.path # <<>> /\ ~res.recv.path[1].changed) =>
        /\ res.built = 0
        /\ ~res.err
        /\ res.out = <<Zipper(res.recv.path[1].pnode, Tail(res.recv.path))>>

\* C3's case: up() was called on the cursor C.down() of an unedited cursor
\* C, and returned C.
C3_Witness ==
  /\ res.op = "up"
  /\ res.out # <<>>
  /\ Unedited(res.out[1])
  /\ down(heap, res.out[1]) = <<res.recv>>

\* C4: a move that has nowhere to go returns None and does not raise.
C4_NoDestinationIsNone ==
  /\ (res.op \in {"left", "leftmost"} /\ HasNoLeft(res.recv)) =>
        (res.out = <<>> /\ ~res.err)
  /\ (res.op \in {"right", "rightmost"} /\ HasNoRight(res.recv)) =>
        (res.out = <<>> /\ ~res.err)
  /\ (res.op = "down" /\ Children(heap, res.recv.focus) = <<>>) =>
        (res.out = <<>> /\ ~res.err)
  /\ (res.op = "up" /\ res.recv.path = <<>>) =>
        (res.out = <<>> /\ ~res.err)

\* C4's case: down() was called on a cursor whose focus is Empty.
C4_Witness ==
  /\ res.op = "down"
  /\ res.recv.focus = Empty
  /\ res.out = <<>>

\* The longest common prefix of two positions.
CommonPos(a, b) ==
  LET n == IF Len(a) < Len(b) THEN Len(a) ELSE Len(b)
      S == {i \in 0..n : SubSeq(a, 1, i) = SubSeq(b, 1, i)}
  IN SubSeq(a, 1, CHOOSE i \in S : \A k \in S : k <= i)

\* The deepest position on both root-to-focus chains that holds a node: the
\* common prefix of the two positions, less its last step when that is an
\* Empty entry.
DeepestCommon(h, rt, a, b) ==
  LET cp == CommonPos(a, b)
  IN IF NodeAt(h, rt, cp) = Empty THEN SubSeq(cp, 1, Len(cp) - 1) ELSE cp

\* C5: for unedited cursors A and B, A.common_ancestor(B) is None when their
\* roots are different objects, and otherwise a cursor, never on Empty, on
\* the deepest node of both chains: it is at that position, its focus is the
\* object the tree holds there, and nothing was built on the way.
C5_CommonAncestor ==
  (res.op = "common_ancestor" /\ Unedited(res.recv)
     /\ Unedited(res.other[1])) =>
    LET a == res.recv
        b == res.other[1]
    IN IF RootOf(a) # RootOf(b)
       THEN res.out = <<>> /\ ~res.err
       ELSE LET pos == DeepestCommon(Heap0, RootOf(a), PosOf(a), PosOf(b))
            IN /\ ~res.err
               /\ res.out # <<>>
               /\ res.built = 0
               /\ res.out[1].focus # Empty
               /\ res.out[1].focus = NodeAt(Heap0, RootOf(a), pos)
               /\ PosOf(res.out[1]) = pos
               /\ Unedited(res.out[1])

\* C5's case: both cursors are on Empty entries of one node, at different
\* positions, and the call returned a cursor.
C5_Witness ==
  /\ res.op = "common_ancestor"
  /\ Unedited(res.recv)
  /\ Unedited(res.other[1])
  /\ res.recv.focus = Empty
  /\ res.other[1].focus = Empty
  /\ PosOf(res.recv) # PosOf(res.other[1])
  /\ res.out # <<>>

RECURSIVE UpChain(_, _)
\* The cursors up(), up().up(), ... of a cursor (with the cursor itself), as
\* far as up() returns one.
UpChain(h, z) ==
  LET o == up(h, z)
  IN IF o.err \/ o.z = <<>> THEN {z} ELSE {z} \cup UpChain(o.h, o.z[1])

\* C6 as claimed: when the two cursors share a root, common_ancestor
\* returns a cursor, one reached from the receiver by up() alone, and does
\* not fail, whether or not either cursor holds edits.
C6_CommonAncestorWithEdits ==
  (res.op = "common_ancestor" /\ RootOf(res.recv) = RootOf(res.other[1])
     /\ RootOf(res.recv) # Empty) =>
    /\ ~res.err
    /\ res.out # <<>>
    /\ \E z \in UpChain(heap, res.recv) :
         /\ z.path = res.out[1].path
         /\ TreeOf(heap, z.focus) = TreeOf(heap, res.out[1].focus)

RECURSIVE ExpOrder(_, _, _, _, _), ExpKids(_, _, _, _, _, _)
\* The positions below x (itself at pos) in the order asked for ("pre":
\* a node before its children, "post": after them), children left to
\* right, a node the predicate accepts left out with all below it.
ExpOrder(kind, h, x, pos, skip) ==
  IF ClassOf(h, x) \in skip THEN <<>>
  ELSE IF kind = "pre"
       THEN <<pos>> \o ExpKids(kind, h, x, pos, skip, 1)
       ELSE ExpKids(kind, h, x, pos, skip, 1) \o <<pos>>

\* The same for the children of x from the k-th on.
ExpKids(kind, h, x, pos, skip, k) ==
  IF k > Len(Children(h, x)) THEN <<>>
  ELSE ExpOrder(kind, h, Children(h, x)[k], Append(pos, k), skip)
         \o ExpKids(kind, h, x, pos, skip, k + 1)

\* What a traversal of the given kind, never sent anything, yields: at
\* every moment the cursors yielded so far are the first of the expected
\* order, each on the object at its position with a clean path from the
\* start, nothing is built, and the generator ends exactly when all of the
\* order was yielded, without raising.
YieldsInOrder(kind) ==
  (gen.kind = kind /\ gen.sends = <<>>) =>
    LET exp == ExpOrder(kind, Heap0, gen.start, <<>>, gen.skip)
    IN /\ gen.st # "raised"
       /\ heap = Heap0
       /\ Len(gen.yielded) <= Len(exp)
       /\ \A i \in 1..Len(gen.yielded) :
            LET y == gen.yielded[i]
            IN /\ PosOf(y) = exp[i]
               /\ y.focus = NodeAt(Heap0, gen.start, exp[i])
               /\ RootOf(y) = gen.start
               /\ \A k \in 1..Len(y.path) : ~y.path[k].changed
       /\ gen.st = "done" => Len(gen.yielded) = Len(exp)

\* C7: preorder_descendants yields the start and every node and list
\* below it, a node before its children and children left to right, leaves
\* out a node dont_recurse_on accepts together with its subtree, goes on
\* with what follows that subtree, and terminates.
C7_PreorderDescendants == YieldsInOrder("pre")

\* C7's case: a preorder traversal from the module with a predicate that
\* accepts the If ran to its end, past the subtree it left out.
C7_Witness ==
  /\ gen.kind = "pre"
  /\ gen.st = "done"
  /\ gen.sends = <<>>
  /\ gen.start = 1
  /\ gen.skip = {"If"}
  /\ \E i \in 1..Len(gen.yielded) : gen.yielded[i].focus = 5

\* C8 as claimed: postorder_descendants does the same with every node
\* after its children, also when the leaves are nodes without child fields.
C8_PostorderDescendants == YieldsInOrder("post")

\* C9 as claimed: after send(r), r being c.replace(x) for the cursor c just
\* yielded, the generator does not raise; the cursors yielded next are on
\* the descendants of x, followed by what followed c's subtree; and the
\* root of every cursor yielded later holds x where c's focus was.
C9_SendReplacement ==
  (gen.kind \in {"pre", "post"} /\ gen.sends # <<>>) =>
    LET s == gen.sends[1]
        c == gen.yielded[s.at]
        x == s.r.focus
        exp == ExpOrder(gen.kind, Heap0, gen.start, <<>>, gen.skip)
        IsBelow(pos) == /\ Len(pos) >= Len(PosOf(c))
                        /\ SubSeq(pos, 1, Len(PosOf(c))) = PosOf(c)
        rest == SelectSeq(SubSeq(exp, s.at + 1, Len(exp)),
                          LAMBDA pos : ~IsBelow(pos))
        after == ExpKids(gen.kind, Heap0, x, PosOf(c), gen.skip, 1) \o rest
        later == SubSeq(gen.yielded, s.at + 1, Len(gen.yielded))
    IN /\ gen.st # "raised"
       /\ Len(later) <= Len(after)
       /\ \A i \in 1..Len(later) :
            LET o == root(heap, later[i])
            IN /\ PosOf(later[i]) = after[i]
               /\ ~o.err
               /\ NodeAt(o.h, o.z[1].focus, PosOf(c)) = x
       /\ gen.st = "done" => Len(later) = Len(after)

\* The cursor on the k-th object above an unedited cursor.
AncestorCursor(z, k) == Zipper(z.path[k].pnode, SubSeq(z.path, k + 1, Len(z.path)))

\* The cursor on the node that holds the cursor's focus, in a field or in a
\* sequence of a field.
NodeAbove(h, z) ==
  IF IsList(h, z.path[1].pnode) THEN AncestorCursor(z, 2)
  ELSE AncestorCursor(z, 1)

\* The focus is the default or the annotation of a Parameter.
IsParameterExpr(h, z) ==
  /\ z.path # <<>>
  /\ z.focus # Empty
  /\ ClassOf(h, z.path[1].pnode) = "Parameter"

\* The focus is the returns field of a FunctionDef.
IsReturns(h, z) ==
  /\ z.path # <<>>
  /\ z.focus # Empty
  /\ ClassOf(h, z.path[1].pnode) = "FunctionDef"
  /\ Len(z.path[1].left) = 3

RECURSIVE EnclosingScope(_, _)
\* The scope the node under a cursor below the root belongs to: the nearest
\* node above it that introduces a scope, a default, an annotation and a
\* return annotation belonging where the function they are written in
\* belongs.
EnclosingScope(h, y) ==
  LET p == NodeAbove(h, y)
  IN IF ClassOf(h, p.focus) = "Parameter"
     THEN EnclosingScope(h, NodeAbove(h, NodeAbove(h, p)))
     ELSE IF IsReturns(h, y) THEN EnclosingScope(h, p)
     ELSE IF ClassOf(h, p.focus) \in ScopedClasses THEN p
     ELSE EnclosingScope(h, p)

\* The function or lambda whose parameter or return annotation the focus
\* belongs to.
OwnerFunction(h, z) ==
  IF IsReturns(h, z) THEN NodeAbove(h, z)
  ELSE NodeAbove(h, NodeAbove(h, NodeAbove(h, z)))

\* C10 as claimed: scope() of a node that is the default or the annotation
\* of a parameter of a function or lambda F (positional, keyword-only,
\* *vararg or **kwarg), or F's return annotation, returns the cursor on the
\* scope that encloses F, and never the one on F.  (A default that is
\* itself a lambda is its own scope and is not what the claim is about.)
C10_ScopeOfDefaultsAndAnnotations ==
  (res.op = "scope"
     /\ ClassOf(heap, res.recv.focus) \notin ScopedClasses
     /\ (IsParameterExpr(heap, res.recv) \/ IsReturns(heap, res.recv))) =>
    LET F == OwnerFunction(heap, res.recv)
    IN /\ ~res.err
       /\ res.out = <<EnclosingScope(heap, F)>>
       /\ res.out[1] # F

\* C11 as claimed: the parts of a generator clause of a comprehension can
\* be asked for their scope; the iterable of the first clause resolves to
\* the scope enclosing the comprehension, and the target, the conditions
\* and the iterable of every later clause resolve to the comprehension,
\* also when they are equal in text to the first iterable.
C11_ComprehensionScope ==
  ClassOf(heap, cur.focus) = "Comprehension" =>
    LET target == DownOutcome(heap, cur)
        comp == NodeAbove(heap, cur)
    IN /\ ~target.err
       /\ target.z # <<>>
       /\ LET iter == right(target.z[1])[1]
              ifs == right(iter)[1]
          IN /\ scope(heap, target.z[1]).z = <<comp>>
             /\ scope(heap, iter).z =
                  <<IF cur.path[1].left = <<>>
                    THEN EnclosingScope(heap, comp) ELSE comp>>
             /\ scope(heap, ifs).z = <<comp>>
             /\ \A c \in Below(heap, ifs, 1) : scope(heap, c).z = <<comp>>

\* How far above the cursor its Decorators node is: 0 when the focus is
\* one, k when the k-th object above is one and nothing between introduces
\* a scope; the empty set when the focus is not part of a decorator list.
DecoratorsLevel(h, z) ==
  IF ClassOf(h, z.focus) = "Decorators" THEN {0}
  ELSE {k \in 1..Len(z.path) :
          /\ ClassOf(h, z.path[k].pnode) = "Decorators"
          /\ ClassOf(h, z.focus) \notin ScopedClasses
          /\ \A j \in 1..(k - 1) :
               ClassOf(h, z.path[j].pnode) \notin ScopedClasses}

\* The cursor on the definition the Decorators node above the cursor
\* belongs to.
Decorated(h, z) ==
  LET k == CHOOSE k \in DecoratorsLevel(h, z) : TRUE
  IN AncestorCursor(z, k + 1)

\* C12: scope() of a Decorators node and of every expression inside it
\* returns the cursor on the scope that encloses the decorated function or
\* class, and never the one on the decorated definition.
C12_DecoratorsScope ==
  (res.op = "scope" /\ DecoratorsLevel(heap, res.recv) # {}) =>
    /\ ~res.err
    /\ res.out = <<EnclosingScope(heap, Decorated(heap, res.recv))>>
    /\ res.out[1] # Decorated(heap, res.recv)

\* C12's case: scope() was called on an expression nested in a decorator of
\* a method and returned the class the method is defined in.
C12_Witness ==
  /\ res.op = "scope"
  /\ \E k \in DecoratorsLevel(heap, res.recv) : k >= 3
  /\ ClassOf(heap, Decorated(heap, res.recv).focus) = "FunctionDef"
  /\ res.out # <<>>
  /\ ClassOf(heap, res.out[1].focus) = "ClassDef"

\* How far above the cursor the nearest object that introduces a scope is.
ScopeLevel(h, z) ==
  CHOOSE k \in 1..Len(z.path) :
    /\ ClassOf(h, z.path[k].pnode) \in ScopedClasses
    /\ \A j \in 1..(k - 1) : ClassOf(h, z.path[j].pnode) \notin ScopedClasses

\* The cursor z, or the one on the k-th object above it.
SelfOrAncestor(z, k) == IF k = 0 THEN z ELSE AncestorCursor(z, k)

\* One of the special cases decides the scope of the focus: on the way up
\* to the nearest object that introduces a scope there is a default, an
\* annotation, a return annotation, a Decorators node or a part of a
\* generator clause.
SpecialCase(h, z) ==
  \E k \in 0..(ScopeLevel(h, z) - 1) :
    LET y == SelfOrAncestor(z, k)
    IN \/ IsParameterExpr(h, y)
       \/ IsReturns(h, y)
       \/ ClassOf(h, y.focus) = "Decorators"
       \/ ClassOf(h, y.path[1].pnode) = "Comprehension"

\* C13 as claimed: scope() of a node that introduces a scope returns the
\* cursor it was called on; scope() of any other node below the module
\* that no special case covers returns the cursor on the nearest object
\* above it that introduces a scope.
C13_DefaultScope ==
  (res.op = "scope" /\ IsNode(heap, res.recv.focus)
     /\ res.recv.focus # Empty) =>
    IF ClassOf(heap, res.recv.focus) \in ScopedClasses
    THEN ~res.err /\ res.out = <<res.recv>>
    ELSE ~SpecialCase(heap, res.recv) =>
           /\ ~res.err
           /\ res.out = <<AncestorCursor(res.recv, ScopeLevel(heap, res.recv))>>

\* The try statement of the example module was asked for a block range.
ExampleTryAsked ==
  /\ res.op = "block_range"
  /\ RootOf(cur) = 1
  /\ heap[res.recv].cls = "TryExcept"

\* C14 as claimed: for the try/except/else of the example, block_range of
\* the try statement is (1, 7) for line 1, (3, 4) for line 3 and (5, 5) for
\* line 5.
C14_ExampleRanges ==
  ExampleTryAsked =>
    /\ res.arg = 1 => res.out = <<1, 7>>
    /\ res.arg = 3 => res.out = <<3, 4>>
    /\ res.arg = 5 => res.out = <<5, 5>>

\* C14 as amended: the example occupies lines 1 to 8 (try at line 1, the
\* handlers at lines 3 and 5, else at line 7), and block_range of the try
\* statement is (1, 1) for line 1, its own first line, (3, 3) for line 3,
\* the line of the first handler's exception type, and (5, 5) for line 5.
C14_ExampleRangesAmended ==
  ExampleTryAsked =>
    /\ fromlineno(heap, res.recv) = 1
    /\ res.arg = 1 => res.out = <<1, 1>>
    /\ res.arg = 3 => res.out = <<3, 3>>
    /\ res.arg = 5 => res.out = <<5, 5>>

C14_Witness == ExampleTryAsked /\ res.arg = 3 /\ res.out = <<3, 3>>

RECURSIVE Within(_, _)
\* The objects of the tree under x.
Within(h, x) ==
  IF x = Empty THEN {}
  ELSE {x} \cup UNION {Within(h, h[x].fields[i]) : i \in 1..Len(h[x].fields)}

\* The lines the nodes of the tree under x are on.
LinesOf(h, x) == {h[n].lineno : n \in {k \in Within(h, x) : h[k].cls # "list"}}

\* The first and the last line of a node or of a list of statements.
FirstLine(h, x) == CHOOSE l \in LinesOf(h, x) : \A k \in LinesOf(h, x) : l <= k

LastLine(h, x) == CHOOSE l \in LinesOf(h, x) : \A k \in LinesOf(h, x) : k <= l

\* The shared rule for a statement s with the alternate branch A (a list of
\* statements, perhaps empty) and the end to fall back on without one.
SharedRule(h, s, l, A, fallback) ==
  IF l = h[s].lineno THEN <<l, l>>
  ELSE IF h[A].fields # <<>>
  THEN IF l >= FirstLine(h, A) THEN <<l, LastLine(h, A)>>
       ELSE <<l, FirstLine(h, A) - 1>>
  ELSE <<l, fallback>>

\* The handlers of a try/except and the parts of a handler.
HandlersOf(h, t) == h[h[t].fields[2]].fields

TypeOf(h, e) == h[e].fields[1]

BodyOf(h, e) == h[e].fields[3]

\* The handler e matches the line l: l is the line of its exception type
\* or lies within its body.
TypeMatches(h, e, l) == TypeOf(h, e) # Empty /\ l = h[TypeOf(h, e)].lineno

BodyMatches(h, e, l) == FirstLine(h, BodyOf(h, e)) <= l /\ l <= LastLine(h, BodyOf(h, e))

\* What C15 expects of the try/except t for the line l.  The first
\* handler's start is read as the line before the first statement of its
\* body, the last line before the handler's block; it is the line of the
\* except clause whenever the body starts on the next line.
ExpectedTryExcept(h, t, l) ==
  LET hs == HandlersOf(h, t)
      matching == {i \in 1..Len(hs) : TypeMatches(h, hs[i], l) \/ BodyMatches(h, hs[i], l)}
  IN IF matching # {}
     THEN LET e == hs[CHOOSE i \in matching : \A j \in matching : i <= j]
          IN IF TypeMatches(h, e, l) THEN <<l, l>>
             ELSE <<l, LastLine(h, BodyOf(h, e))>>
     ELSE SharedRule(h, t, l, h[t].fields[3], FirstLine(h, BodyOf(h, hs[1])) - 1)

AlternateOf(h, s) ==
  CASE h[s].cls = "For" -> h[s].fields[4]
    [] h[s].cls \in {"While", "If"} -> h[s].fields[3]
    [] h[s].cls = "TryFinally" -> h[s].fields[2]

\* C16 as claimed: block_range of a for loop, a while loop, a conditional
\* or a try/finally follows the shared rule: (l, l) on the statement's
\* first line; with an alternate branch, (l, its last line) from its first
\* line on and (l, its first line - 1) before; without one, (l, the
\* statement's last line).
C16_SharedRule ==
  (res.op = "block_range"
     /\ heap[res.recv].cls \in {"For", "While", "If", "TryFinally"}) =>
    res.out = SharedRule(heap, res.recv, res.arg, AlternateOf(heap, res.recv),
                         LastLine(heap, res.recv))

\* C17 as claimed: block_range of a conditional, asked about a line from
\* the first line of its body's first statement to the last line of its
\* body's last statement, ends at the body's last line; asked about a line
\* past the body, it follows the shared rule.
C17_ConditionalBody ==
  (res.op = "block_range" /\ heap[res.recv].cls = "If") =>
    LET body == heap[res.recv].fields[2]
    IN IF FirstLine(heap, body) <= res.arg /\ res.arg <= LastLine(heap, body)
       THEN res.out = <<res.arg, LastLine(heap, body)>>
       ELSE res.arg > LastLine(heap, body) =>
              res.out = SharedRule(heap, res.recv, res.arg,
                                   AlternateOf(heap, res.recv),
                                   LastLine(heap, res.recv))

\* The classes that define block_range themselves.
OwnRuleClasses == {"If", "While", "TryExcept", "TryFinally", "Module"}

\* A node without a block-range rule of its own was asked.
DefaultRuleAsked ==
  res.op = "block_range" /\ heap[res.recv].cls \notin OwnRuleClasses

\* C18 as claimed: block_range of a node without a rule of its own is the
\* node's own span, (its first line, its last line), whatever line is asked
\* about.
C18_OwnSpan ==
  DefaultRuleAsked =>
    res.out = <<heap[res.recv].lineno, LastLine(heap, res.recv)>>

\* C18 as amended: block_range of a node without a rule of its own is
\* (l, the node's last line) for the line l asked about: the range starts
\* at the line asked about, not at the node's first line.
C18_FromLineAsked ==
  DefaultRuleAsked =>
    res.out = <<res.arg, LastLine(heap, res.recv)>>

\* A statement of two lines was asked about a line that is not its first.
C18_Witness ==
  /\ DefaultRuleAsked
  /\ heap[res.recv].cls = "Expr"
  /\ LastLine(heap, res.recv) > heap[res.recv].lineno
  /\ res.arg # heap[res.recv].lineno

\* The first statement of the body of the try/finally t.
InnerOf(h, t) == h[h[t].fields[1]].fields[1]

\* t is the try/except/finally form: its body starts with a try/except of
\* the same line.
Collapsed(h, t) ==
  h[InnerOf(h, t)].cls = "TryExcept" /\ h[InnerOf(h, t)].lineno = h[t].lineno

\* C19: block_range of a try/except/finally, asked about a line within the
\* inner try/except, is what the inner try/except answers for that line;
\* asked about any other line, and for every other try/finally, it follows
\* the shared rule with the finally body as the alternate branch.
C19_TryFinallyRange ==
  (res.op = "block_range" /\ heap[res.recv].cls = "TryFinally") =>
    LET inner == InnerOf(heap, res.recv)
    IN IF /\ Collapsed(heap, res.recv)
          /\ FirstLine(heap, inner) <= res.arg
          /\ res.arg <= LastLine(heap, inner)
       THEN res.out = block_range(heap, inner, res.arg)
       ELSE res.out = SharedRule(heap, res.recv, res.arg,
                                 AlternateOf(heap, res.recv),
                                 LastLine(heap, res.recv))

\* A try/except/finally was asked about the line of a handler, where the
\* inner try/except and the shared rule differ.
C19_Witness ==
  /\ res.op = "block_range"
  /\ heap[res.recv].cls = "TryFinally"
  /\ Collapsed(heap, res.recv)
  /\ TypeMatches(heap, HandlersOf(heap, InnerOf(heap, res.recv))[1], res.arg)
  /\ res.out = <<res.arg, res.arg>>
  /\ res.out # SharedRule(heap, res.recv, res.arg, AlternateOf(heap, res.recv),
                          LastLine(heap, res.recv))

\* The node a raw default is rebuilt into: a Const of the number or a Name
\* of the identifier.
RebuiltFrom(h, x, raw) ==
  /\ x # Empty
  /\ h[x].cls = (IF raw.ast = "Num" THEN "Const" ELSE "Name")
  /\ h[x].name = raw.v

\* C20: of n raw parameters and k <= n raw defaults, the rebuilt parameters
\* are the n parameters in order; the first n - k have Empty as default and
\* parameter n - k + i has the i-th default, rebuilt, each default in an
\* object of its own.
C20_DefaultsRightAligned ==
  (gen.kind = "_build_args" /\ gen.pc = "done"
     /\ Len(res.defaults) <= Len(res.params)) =>
    LET n == Len(res.params)
        k == Len(res.defaults)
    IN /\ Len(res.out) = n
       /\ \A j \in 1..n :
            /\ heap[res.out[j]].cls = "Parameter"
            /\ heap[res.out[j]].name = res.params[j]
       /\ \A j \in 1..(n - k) : heap[res.out[j]].fields[1] = Empty
       /\ \A i \in 1..k :
            RebuiltFrom(heap, heap[res.out[n - k + i]].fields[1], res.defaults[i])
       /\ \A i, j \in 1..k :
            i # j => heap[res.out[n - k + i]].fields[1]
                       # heap[res.out[n - k + j]].fields[1]

\* def f(a, b, c=1): the defaults Empty, Empty, Const(1).
C20_Witness ==
  /\ gen.kind = "_build_args"
  /\ gen.pc = "done"
  /\ res.params = <<"a", "b", "c">>
  /\ res.defaults = <<RawNode("Num", "1")>>
  /\ heap[res.out[1]].fields[1] = Empty
  /\ heap[res.out[2]].fields[1] = Empty
  /\ heap[heap[res.out[3]].fields[1]].cls = "Const"

\* C21 as claimed: with more raw defaults than raw parameters _build_args
\* ends by raising a build error: the padding loop adds nothing to the
\* defaults, which are already past the parameter count, and no parameter
\* is built from a truncated list.
C21_TooManyDefaultsRaise ==
  (gen.kind = "_build_args" /\ Len(res.defaults) > Len(res.params)) =>
    /\ gen.defaults = res.defaults
    /\ res.out = <<>>
    /\ gen.pc # "done"

\* The lines of the statements of a rebuilt block.
BlockLines(h, l) == [i \in 1..Len(h[l].fields) |-> h[h[l].fields[i]].lineno]

\* The rebuilt handler e is the raw handler r.
HandlerIs(h, e, r) ==
  /\ h[e].cls = "ExceptHandler"
  /\ h[e].lineno = r.lineno
  /\ IF r.type = "" THEN h[e].fields[1] = Empty
     ELSE h[e].fields[1] # Empty /\ h[h[e].fields[1]].name = r.type
  /\ BlockLines(h, h[e].fields[3]) = r.body

\* The rebuilt node x is the try/except of the raw node: its body, its
\* handlers and its else branch, on its line.
TryExceptIs(h, x, node) ==
  /\ h[x].cls = "TryExcept"
  /\ h[x].lineno = node.lineno
  /\ BlockLines(h, h[x].fields[1]) = node.body
  /\ Len(h[h[x].fields[2]].fields) = Len(node.handlers)
  /\ \A i \in 1..Len(node.handlers) :
       HandlerIs(h, h[h[x].fields[2]].fields[i], node.handlers[i])
  /\ BlockLines(h, h[x].fields[3]) = node.orelse

\* C22: visit_try returns a node: for a Try with handlers and a finally
\* block a TryFinally of the same line whose body is one TryExcept and
\* whose finalbody is the finally block; for a Try with a finally block
\* only, a TryFinally over the body; for a Try with handlers only, a
\* TryExcept.
C22_CanonicalTry ==
  res.op = "visit_try" =>
    /\ Len(res.out) = 1
    /\ LET x == res.out[1]
           node == res.node
       IN IF node.finalbody # <<>>
          THEN /\ heap[x].cls = "TryFinally"
               /\ heap[x].lineno = node.lineno
               /\ BlockLines(heap, heap[x].fields[2]) = node.finalbody
               /\ IF node.handlers # <<>>
                  THEN /\ Len(heap[heap[x].fields[1]].fields) = 1
                       /\ TryExceptIs(heap, heap[heap[x].fields[1]].fields[1], node)
                  ELSE BlockLines(heap, heap[x].fields[1]) = node.body
          ELSE TryExceptIs(heap, x, node)

\* A Try with two handlers, an else branch and a finally block was rebuilt.
C22_Witness ==
  /\ res.op = "visit_try"
  /\ Len(res.node.handlers) = 2
  /\ res.node.orelse # <<>>
  /\ Len(res.node.finalbody) = 2
  /\ res.out # <<>>
  /\ heap[res.out[1]].cls = "TryFinally"

\* C23 as claimed: every declared child field of a node of a rebuilt tree
\* is set, to a node, a list or Empty, and iterating over the child fields
\* of a node, as down() does, never raises.
C23_ChildFieldsSet ==
  /\ (cur.focus # Empty =>
        \A k \in 1..Len(heap[cur.focus].fields) :
          heap[cur.focus].fields[k] # Missing)
  /\ (res.op = "down" => ~res.err)

\* C24 as claimed: two nodes compare equal exactly when they are of the
\* same class and their child fields and their other fields are equal,
\* recursively; nodes of different classes compare unequal.
C24_StructuralEquality ==
  res.op = "==" =>
    res.out = (IF TreeOf(heap, res.recv) = TreeOf(heap, res.arg)
               THEN "True" ELSE "False")

\* The cursors on z and on what is right of it.
Siblings(h, z) == Below(h, z, 0)

\* The cursors on the children the node under z holds: what down() and
\* right() reach, and the elements of the lists among them.
ChildCursors(h, z) ==
  LET fields == IF down(h, z) = <<>> THEN {} ELSE Siblings(h, down(h, z)[1])
  IN {c \in fields : ~IsList(h, c.focus)}
       \cup UNION {Siblings(h, down(h, c)[1]) :
                     c \in {f \in fields : IsList(h, f.focus) /\ down(h, f) # <<>>}}

\* How many children the object x holds, directly or in a list.
ChildCount(h, x) ==
  LET n(k) == IF IsList(h, h[x].fields[k]) THEN Len(h[h[x].fields[k]].fields) ELSE 1
      RECURSIVE sum(_)
      sum(k) == IF k = 0 THEN 0 ELSE n(k) + sum(k - 1)
  IN sum(Len(h[x].fields))

\* C25 as claimed: every child a node of the built tree holds, directly or
\* in a list, can be reached, and its parent is that node.
C25_ParentConsistency ==
  (cur.focus # Empty /\ ~IsList(heap, cur.focus)) =>
    /\ ~DownOutcome(heap, cur).err
    /\ Cardinality(ChildCursors(heap, cur)) = ChildCount(heap, cur.focus)
    /\ \A c \in ChildCursors(heap, cur) :
         /\ ~parent(heap, c).err
         /\ parent(heap, c).z = <<cur>>

\* The number of package levels a relative import ascends: the level asked
\* for, less one in a package.
Ascents(mod, level) == IF mod.package THEN level - 1 ELSE level

\* C26: relative_to_absolute_name raises TooManyLevelsError exactly when the
\* number of levels to ascend is positive and more than the dots of the
\* module's name; the error carries that number and the module's name, and
\* every other call returns a name.
C26_TooManyLevels ==
  res.op = "relative_to_absolute_name" =>
    LET mod == heap[res.recv]
        dots == Len(SelectSeq(mod.name, LAMBDA ch : ch = "."))
        beyond == /\ res.level # <<>>
                  /\ Ascents(mod, res.level[1]) > 0
                  /\ Ascents(mod, res.level[1]) > dots
    IN IF beyond
       THEN /\ res.raised.err = "TooManyLevelsError"
            /\ res.raised.level = Ascents(mod, res.level[1])
            /\ res.raised.name = mod.name
       ELSE res.raised.err = ""

\* relative_to_absolute_name('u', 4) of the package a.b.c raised, with
\* level 3.
C26_Witness ==
  /\ res.op = "relative_to_absolute_name"
  /\ heap[res.recv].package
  /\ heap[res.recv].name = <<"a", ".", "b", ".", "c">>
  /\ res.level = <<4>>
  /\ res.raised.err = "TooManyLevelsError"
  /\ res.raised.level = 3

\* The file cannot be opened.
CannotOpen(file) == ~file.exists

\* The file's encoding declaration is unknown or cannot be read.
UnknownEncoding(file) == file.exists /\ detect_encoding(file.lines).err # ""

\* The file's bytes do not decode with the encoding detected.
CannotDecode(file) ==
  /\ file.exists
  /\ detect_encoding(file.lines).err = ""
  /\ \E k \in 1..Len(file.lines) :
       ~Decodes(file.lines[k], detect_encoding(file.lines).encoding[1])

\* C27 as claimed: file_build on a file that cannot be opened, has an
\* unknown encoding declaration or does not decode raises a building
\* error that carries the path and, for a decoding failure, the encoding,
\* and returns no module.
C27_BuildingErrors ==
  (/\ res.op = "file_build"
   /\ \/ CannotOpen(heap[res.recv])
      \/ UnknownEncoding(heap[res.recv])
      \/ CannotDecode(heap[res.recv])) =>
    /\ res.built.raised.type \in {"AstroidBuildingError", "AstroidSyntaxError"}
    /\ heap[res.recv].name
         \in {res.built.raised.path[k] : k \in 1..Len(res.built.raised.path)}
               \cup {res.built.raised.filename[k] :
                       k \in 1..Len(res.built.raised.filename)}
    /\ (CannotDecode(heap[res.recv]) =>
          res.built.raised.encoding = detect_encoding(heap[res.recv].lines).encoding)
    /\ res.built.out = <<>>

\* C30 as claimed: every handle opened during file_build is closed when it
\* returns or raises.
C30_HandlesClosed ==
  res.op = "file_build" =>
    \A k \in 1..Len(res.built.handles) : res.built.handles[k].closed

\* The siblings of a cursor below the root, in order, the focus among them.
SiblingSequence(z) ==
  _reverse(z.path[1].left) \o <<z.focus>> \o z.path[1].right

\* C28: a sibling move that returns a cursor keeps the sibling sequence,
\* the ancestor chain and the dirty flag; after leftmost() nothing is left
\* of the focus, which is the first of the sequence, and after rightmost()
\* nothing is right of it and it is the last.
C28_SiblingMoves ==
  (res.op \in {"left", "right", "leftmost", "rightmost"} /\ res.out # <<>>) =>
    LET before == res.recv
        after == res.out[1]
    IN /\ before.path # <<>>
       /\ Len(after.path) = Len(before.path)
       /\ SiblingSequence(after) = SiblingSequence(before)
       /\ Tail(after.path) = Tail(before.path)
       /\ after.path[1].pnode = before.path[1].pnode
       /\ after.path[1].changed = before.path[1].changed
       /\ (res.op = "leftmost" =>
             /\ after.path[1].left = <<>>
             /\ after.focus = Head(SiblingSequence(before)))
       /\ (res.op = "rightmost" =>
             /\ after.path[1].right = <<>>
             /\ after.focus = _last(SiblingSequence(before)))

\* leftmost() was called with two siblings to the left and the dirty flag
\* set, and returned a cursor.
C28_Witness ==
  /\ res.op = "leftmost"
  /\ res.out # <<>>
  /\ Len(res.recv.path[1].left) >= 2
  /\ res.recv.path[1].changed

RECURSIVE NodesBelow(_, _)
\* The nodes below x: what its child fields hold, directly or in a list,
\* and what is below those.
NodesBelow(h, x) ==
  LET held == {h[x].fields[k] : k \in 1..Len(h[x].fields)} \ {Empty, Missing}
      kids == {c \in held : ~IsList(h, c)}
                \cup UNION {{h[l].fields[k] : k \in 1..Len(h[l].fields)} \ {Empty} :
                              l \in {c \in held : IsList(h, c)}}
  IN kids \cup UNION {NodesBelow(h, c) : c \in kids}

\* C29 as claimed: tolineno of every node of the built tree is a line, not
\* before the node's fromlineno and not before the tolineno of any node
\* below it.
C29_LastLine ==
  res.op = "tolineno" =>
    /\ ~res.out.err
    /\ res.out.line # NoLine
    /\ res.from # NoLine
    /\ res.out.line >= res.from
    /\ \A d \in NodesBelow(heap, res.recv) :
         /\ ~TolinenoOutcome(heap, d).err
         /\ TolinenoOutcome(heap, d).line # NoLine
         /\ res.out.line >= TolinenoOutcome(heap, d).line

=============================================================================
